---- MODULE Spec2Model ----
(***************************************************************************)
(* Miku Chess rule engine: move generation (game_logic.py) and the         *)
(* per-match turn state machine (game_state.py, GameManager).              *)
(***************************************************************************)
EXTENDS Integers, Sequences, FiniteSets, TLC

\* ------------------------------------------------------------------ bounds
\* accepted calls (make_move / skip_second_move) explored from a start state
MaxMoves == 2
\* request coordinates reach this many cells beyond each edge of the board
Margin == 1
\* request columns reach this many columns to either side of the centre column
Reach == 1
\* direct calls of GameLogic pass turn 11 and this many turns before it
TurnSpan == 1

\* --------------------------------------------------------------- constants
Rows == 10
Cols == 9
CentreCol == 4
DoubleMoveTurn == 11

\* ------------------------------------------------------------ game_logic.py
ATTACK == "attack"
DEFENSE == "defense"
SUPPORT == "support"
MAGIC == "magic"
GENERAL == "general"
BLUE == "blue"
RED == "red"

\* Python's None for an empty cell; Piece is the dataclass (piece_type, team)
None == [piece_type |-> "none", team |-> "none"]
Piece(t, tm) == [piece_type |-> t, team |-> tm]
NoPos == <<>>

is_in_blue_zone(row) == 0 <= row /\ row <= 4
\* is_in_red_zone without the upper bound
is_in_red_zone_unbounded(row) == 5 <= row

is_in_red_zone(row) == 5 <= row /\ row <= 9

get_blue_palace == (0..2) \X (3..5)
get_red_palace == (7..9) \X (3..5)
get_blue_magic_zone == (2..4) \X (3..5)
get_red_magic_zone == (5..7) \X (3..5)

is_valid_position(row, col) == 0 <= row /\ row <= 9 /\ 0 <= col /\ col <= 8

Abs(x) == IF x < 0 THEN -x ELSE x

is_diagonal(from_pos, to_pos) ==
    /\ Abs(from_pos[1] - to_pos[1]) = Abs(from_pos[2] - to_pos[2])
    /\ from_pos[1] # to_pos[1]

is_moving_backward(from_pos, to_pos, team) ==
    IF team = BLUE THEN to_pos[1] < from_pos[1] ELSE to_pos[1] > from_pos[1]

is_moving_diagonal_backward(from_pos, to_pos, team) ==
    IF ~is_diagonal(from_pos, to_pos) THEN FALSE
    ELSE is_moving_backward(from_pos, to_pos, team)

\* Python list indexing: a negative index i in -n..-1 addresses element i+n,
\* anything outside -n..n-1 raises IndexError.
IndexOk(i, n) == -n <= i /\ i < n
PyIndex(i, n) == IF i < 0 THEN i + n ELSE i
CellOk(pos) == IndexOk(pos[1], Rows) /\ IndexOk(pos[2], Cols)
Cell(b, pos) == b[PyIndex(pos[1], Rows)][PyIndex(pos[2], Cols)]

\* One ray of the while loops in _get_attack_moves/_get_defense_moves/
\* _get_support_moves, from (r, c) on, stepping (dr, dc); an occupied cell
\* ends the ray and is a destination only when capture and it holds an enemy.
RECURSIVE Ray(_, _, _, _, _, _, _)
Ray(b, r, c, dr, dc, piece, capture) ==
    IF ~is_valid_position(r, c) THEN {}
    ELSE IF b[r][c] = None
         THEN {<<r, c>>} \cup Ray(b, r + dr, c + dc, dr, dc, piece, capture)
         ELSE IF capture /\ b[r][c].team # piece.team THEN {<<r, c>>} ELSE {}

Orthogonal == {<<-1, 0>>, <<1, 0>>, <<0, -1>>, <<0, 1>>}
Diagonal == {<<-1, -1>>, <<-1, 1>>, <<1, -1>>, <<1, 1>>}

\* _get_attack_moves with is_vertical_move true of every direction
_get_attack_moves_captures_sideways(b, pos, piece) ==
    UNION {Ray(b, pos[1] + d[1], pos[2] + d[2], d[1], d[2], piece, TRUE) : d \in Orthogonal}

_get_attack_moves(b, pos, piece) ==
    UNION {Ray(b, pos[1] + d[1], pos[2] + d[2], d[1], d[2], piece, d[2] = 0) : d \in Orthogonal}

\* _get_defense_moves with is_horizontal_move true of every direction
_get_defense_moves_captures_lengthwise(b, pos, piece) ==
    UNION {Ray(b, pos[1] + d[1], pos[2] + d[2], d[1], d[2], piece, TRUE) : d \in Orthogonal}

_get_defense_moves(b, pos, piece) ==
    UNION {Ray(b, pos[1] + d[1], pos[2] + d[2], d[1], d[2], piece, d[1] = 0) : d \in Orthogonal}

\* _get_support_moves with the team test of line 409 inverted
_get_support_moves_takes_friends(b, pos, piece) ==
    UNION {Ray(b, pos[1] + d[1], pos[2] + d[2], d[1], d[2], [piece EXCEPT !.team = IF @ = BLUE THEN RED ELSE BLUE], TRUE) : d \in Diagonal}

_get_support_moves(b, pos, piece) ==
    UNION {Ray(b, pos[1] + d[1], pos[2] + d[2], d[1], d[2], piece, TRUE) : d \in Diagonal}

\* _get_magic_moves without the zone test of line 446
_get_magic_moves_anywhere(b, pos, piece) ==
    {n \in {<<pos[1] + d[1], pos[2] + d[2]>> : d \in Orthogonal} :
        is_valid_position(n[1], n[2]) /\ b[n[1]][n[2]] = None}

_get_magic_moves(b, pos, piece) ==
    LET magic_zone == IF piece.team = BLUE THEN get_blue_magic_zone ELSE get_red_magic_zone
    IN {n \in {<<pos[1] + d[1], pos[2] + d[2]>> : d \in Orthogonal} :
            n \in magic_zone /\ b[n[1]][n[2]] = None}

_get_general_moves(b, pos, piece) ==
    LET palace == IF piece.team = BLUE THEN get_blue_palace ELSE get_red_palace
    IN {n \in {<<pos[1] + d[1], pos[2] + d[2]>> : d \in Orthogonal} :
            n \in palace /\ b[n[1]][n[2]] = None}

RawMoves(b, pos, piece) ==
    CASE piece.piece_type = ATTACK -> _get_attack_moves(b, pos, piece)
      [] piece.piece_type = DEFENSE -> _get_defense_moves(b, pos, piece)
      [] piece.piece_type = SUPPORT -> _get_support_moves(b, pos, piece)
      [] piece.piece_type = MAGIC -> _get_magic_moves(b, pos, piece)
      [] piece.piece_type = GENERAL -> _get_general_moves(b, pos, piece)

NoRetreat(moves, pos, team) ==
    {m \in moves : ~is_moving_backward(pos, m, team)
                   /\ ~is_moving_diagonal_backward(pos, m, team)}

\* GameLogic.get_valid_moves; pos must satisfy CellOk (the caller faults first)
get_valid_moves(b, pos, current_team, blue_magic_alive, red_magic_alive, turn_number, second_move, frozen_positions) ==
    LET piece == Cell(b, pos)
        can_retreat == ~( (piece.team = BLUE /\ ~blue_magic_alive)
                          \/ (piece.team = RED /\ ~red_magic_alive) )
        valid_moves == RawMoves(b, pos, piece)
        filtered == IF can_retreat THEN valid_moves
                    ELSE NoRetreat(valid_moves, pos, piece.team)
    IN IF piece = None THEN {}
       ELSE IF piece.team # current_team THEN {}
       ELSE IF pos \in frozen_positions THEN {}
       ELSE IF turn_number = DoubleMoveTurn /\ blue_magic_alive /\ current_team = RED
               /\ is_in_blue_zone(pos[1]) THEN {}
       ELSE IF second_move /\ is_in_blue_zone(pos[1]) /\ blue_magic_alive THEN {}
       ELSE filtered

BoardPos == (0..(Rows - 1)) \X (0..(Cols - 1))

PiecesOf(b, team) == {p \in BoardPos : b[p[1]][p[2]].team = team}

Enemy(team) == IF team = BLUE THEN RED ELSE BLUE

\* first General of team in the row-major scan
GeneralPos(b, team) ==
    LET gs == {p \in BoardPos : b[p[1]][p[2]] = Piece(GENERAL, team)}
    IN IF gs = {} THEN NoPos
       ELSE CHOOSE p \in gs : \A q \in gs : p[1] < q[1] \/ (p[1] = q[1] /\ p[2] <= q[2])

\* is_general_in_check with enemy_can_retreat left True (lines 519-523 dropped)
is_general_in_check_retreating_attackers(b, team, blue_magic_alive, red_magic_alive) ==
    LET general_pos == GeneralPos(b, team)
    IN IF general_pos = NoPos THEN TRUE
       ELSE \E pos \in PiecesOf(b, Enemy(team)) :
              /\ b[pos[1]][pos[2]].piece_type \in {ATTACK, DEFENSE, SUPPORT}
              /\ general_pos \in RawMoves(b, pos, b[pos[1]][pos[2]])

is_general_in_check(b, team, blue_magic_alive, red_magic_alive) ==
    LET general_pos == GeneralPos(b, team)
        enemy_team == Enemy(team)
        enemy_can_retreat == ~( (enemy_team = BLUE /\ ~blue_magic_alive)
                                \/ (enemy_team = RED /\ ~red_magic_alive) )
    IN IF general_pos = NoPos THEN TRUE
       ELSE \E pos \in PiecesOf(b, enemy_team) :
              LET piece == b[pos[1]][pos[2]]
                  moves == RawMoves(b, pos, piece)
              IN /\ piece.piece_type \in {ATTACK, DEFENSE, SUPPORT}
                 /\ general_pos \in (IF enemy_can_retreat THEN moves
                                     ELSE NoRetreat(moves, pos, enemy_team))

Relocate(b, from, to) ==
    LET f == <<PyIndex(from[1], Rows), PyIndex(from[2], Cols)>>
        b1 == [b EXCEPT ![to[1]][to[2]] = b[f[1]][f[2]]]
    IN [b1 EXCEPT ![f[1]][f[2]] = None]

\* is_checkmate without the test of lines 570-571
is_checkmate_without_check_test(b, team, blue_magic_alive, red_magic_alive, turn_number, frozen_positions) ==
    \A pos \in PiecesOf(b, team) :
       \A move_to \in get_valid_moves(b, pos, team, blue_magic_alive, red_magic_alive,
                                      turn_number, FALSE, frozen_positions) :
          is_general_in_check(Relocate(b, pos, move_to), team,
                              blue_magic_alive, red_magic_alive)

is_checkmate(b, team, blue_magic_alive, red_magic_alive, turn_number, frozen_positions) ==
    IF ~is_general_in_check(b, team, blue_magic_alive, red_magic_alive) THEN FALSE
    ELSE \A pos \in PiecesOf(b, team) :
           \A move_to \in get_valid_moves(b, pos, team, blue_magic_alive, red_magic_alive,
                                          turn_number, FALSE, frozen_positions) :
              is_general_in_check(Relocate(b, pos, move_to), team,
                                  blue_magic_alive, red_magic_alive)

\* is_stalemate that answers False for a team in check
is_stalemate_unless_in_check(b, team, blue_magic_alive, red_magic_alive, turn_number, frozen_positions) ==
    /\ ~is_general_in_check(b, team, blue_magic_alive, red_magic_alive)
    /\ \A pos \in PiecesOf(b, team) :
          get_valid_moves(b, pos, team, blue_magic_alive, red_magic_alive,
                          turn_number, FALSE, frozen_positions) = {}

is_stalemate(b, team, blue_magic_alive, red_magic_alive, turn_number, frozen_positions) ==
    \A pos \in PiecesOf(b, team) :
        get_valid_moves(b, pos, team, blue_magic_alive, red_magic_alive,
                        turn_number, FALSE, frozen_positions) = {}

\* ------------------------------------------------------------ game_state.py
WAITING == "waiting"
PLAYING == "playing"
BLUE_WIN == "blue_win"
RED_WIN == "red_win"
DRAW == "draw"
LOCAL_MODE == "local"
ONLINE_MODE == "online"
NoPlayer == "None"

EmptyBoard == [r \in 0..(Rows - 1) |-> [c \in 0..(Cols - 1) |-> None]]

BackRank(team) ==
    [c \in 0..(Cols - 1) |->
        IF c \in {0, 1, 2, 6, 7, 8} THEN Piece(ATTACK, team)
        ELSE IF c = 4 THEN Piece(GENERAL, team)
        ELSE Piece(SUPPORT, team)]

FrontRank(team) ==
    [c \in 0..(Cols - 1) |->
        IF c = 4 THEN Piece(MAGIC, team) ELSE Piece(DEFENSE, team)]

create_initial_board ==
    [EmptyBoard EXCEPT ![0] = BackRank(BLUE), ![2] = FrontRank(BLUE),
                       ![9] = BackRank(RED), ![7] = FrontRank(RED)]

\* create_game with Blue to move first
create_game_blue_first(mode, player_id) ==
    [mode |-> mode,
     status |-> IF mode = ONLINE_MODE THEN WAITING ELSE PLAYING,
     board |-> create_initial_board,
     current_team |-> BLUE,
     turn_number |-> 1,
     blue_magic_alive |-> TRUE,
     red_magic_alive |-> TRUE,
     red_double_move_active |-> FALSE,
     red_first_move_done |-> FALSE,
     red_first_move_pos |-> NoPos,
     move_history |-> <<>>,
     blue_player_id |-> NoPlayer,
     red_player_id |-> IF mode = ONLINE_MODE THEN player_id ELSE NoPlayer]

create_game(mode, player_id) ==
    [mode |-> mode,
     status |-> IF mode = ONLINE_MODE THEN WAITING ELSE PLAYING,
     board |-> create_initial_board,
     current_team |-> RED,
     turn_number |-> 1,
     blue_magic_alive |-> TRUE,
     red_magic_alive |-> TRUE,
     red_double_move_active |-> FALSE,
     red_first_move_done |-> FALSE,
     red_first_move_pos |-> NoPos,
     move_history |-> <<>>,
     blue_player_id |-> NoPlayer,
     red_player_id |-> IF mode = ONLINE_MODE THEN player_id ELSE NoPlayer]

\* join_game returns the game, or None when the game is not an online game
\* waiting for its second player
join_game(g, player_id) ==
    IF g.mode # ONLINE_MODE THEN [game |-> g, joined |-> FALSE]
    ELSE IF g.status # WAITING THEN [game |-> g, joined |-> FALSE]
    ELSE IF g.blue_player_id = NoPlayer
         THEN [game |-> [g EXCEPT !.blue_player_id = player_id, !.status = PLAYING],
               joined |-> TRUE]
         ELSE [game |-> g, joined |-> FALSE]

\* get_frozen_positions without the blue_magic_alive test of line 192
get_frozen_positions_ignores_magic(g) ==
    IF g.turn_number = DoubleMoveTurn /\ g.current_team = RED
    THEN {p \in (0..4) \X (0..(Cols - 1)) : g.board[p[1]][p[2]].team = RED}
    ELSE {}

get_frozen_positions(g) ==
    IF g.turn_number = DoubleMoveTurn /\ g.blue_magic_alive /\ g.current_team = RED
    THEN {p \in (0..4) \X (0..(Cols - 1)) : g.board[p[1]][p[2]].team = RED}
    ELSE {}

\* the dict a handler returns; raised = TRUE stands for an exception
\* propagating out of the handler instead of a returned dict
Failure(error) ==
    [success |-> FALSE, error |-> error, raised |-> FALSE, captured |-> None,
     game_status |-> "", waiting_second_move |-> FALSE]
Raised(error) == [Failure(error) EXCEPT !.raised = TRUE]
Success(captured, game_status, waiting) ==
    [success |-> TRUE, error |-> "", raised |-> FALSE, captured |-> captured,
     game_status |-> game_status, waiting_second_move |-> waiting]

is_second_move(g) == g.red_first_move_done /\ g.red_double_move_active

\* Rejection without the status check of line 210
Rejection_no_status_check(g, move, player_id) ==
    LET from == move.from_pos
        piece == Cell(g.board, from)
    IN IF g.mode = ONLINE_MODE /\ player_id # NoPlayer
          /\ \/ (g.current_team = RED /\ player_id # g.red_player_id)
             \/ (g.current_team = BLUE /\ player_id # g.blue_player_id)
       THEN Failure("not_your_turn")
       ELSE IF ~CellOk(from) THEN Raised("IndexError")
       ELSE IF piece = None THEN Failure("no_piece_selected")
       ELSE IF piece.team # g.current_team THEN Failure("not_your_piece")
       ELSE IF is_second_move(g) /\ g.red_first_move_pos # from
            THEN Failure("second_move_same_piece")
       ELSE IF move.to_pos \notin get_valid_moves(g.board, from, g.current_team,
                                    g.blue_magic_alive, g.red_magic_alive,
                                    g.turn_number, is_second_move(g),
                                    get_frozen_positions(g))
            THEN Failure("illegal_move")
       ELSE Success(None, "", FALSE)

\* Rejection without the same-piece check of lines 237-239
Rejection_any_piece_second_move(g, move, player_id) ==
    LET from == move.from_pos
        piece == Cell(g.board, from)
    IN IF g.status # PLAYING THEN Failure("game_not_in_progress")
       ELSE IF g.mode = ONLINE_MODE /\ player_id # NoPlayer
               /\ \/ (g.current_team = RED /\ player_id # g.red_player_id)
                  \/ (g.current_team = BLUE /\ player_id # g.blue_player_id)
            THEN Failure("not_your_turn")
       ELSE IF ~CellOk(from) THEN Raised("IndexError")
       ELSE IF piece = None THEN Failure("no_piece_selected")
       ELSE IF piece.team # g.current_team THEN Failure("not_your_piece")
       ELSE IF move.to_pos \notin get_valid_moves(g.board, from, g.current_team,
                                    g.blue_magic_alive, g.red_magic_alive,
                                    g.turn_number, is_second_move(g),
                                    get_frozen_positions(g))
            THEN Failure("illegal_move")
       ELSE Success(None, "", FALSE)

\* make_move lines 210-249: the reason the request is rejected, "" if none
Rejection(g, move, player_id) ==
    LET from == move.from_pos
        piece == Cell(g.board, from)
    IN IF g.status # PLAYING THEN Failure("game_not_in_progress")
       ELSE IF g.mode = ONLINE_MODE /\ player_id # NoPlayer
               /\ \/ (g.current_team = RED /\ player_id # g.red_player_id)
                  \/ (g.current_team = BLUE /\ player_id # g.blue_player_id)
            THEN Failure("not_your_turn")
       ELSE IF ~CellOk(from) THEN Raised("IndexError")
       ELSE IF piece = None THEN Failure("no_piece_selected")
       ELSE IF piece.team # g.current_team THEN Failure("not_your_piece")
       ELSE IF is_second_move(g) /\ g.red_first_move_pos # from
            THEN Failure("second_move_same_piece")
       ELSE IF move.to_pos \notin get_valid_moves(g.board, from, g.current_team,
                                    g.blue_magic_alive, g.red_magic_alive,
                                    g.turn_number, is_second_move(g),
                                    get_frozen_positions(g))
            THEN Failure("illegal_move")
       ELSE Success(None, "", FALSE)

\* ExecuteMove that leaves a copy of the piece on the cell it left
ExecuteMove_keeps_source(g, move) ==
    [g EXCEPT !.board[move.to_pos[1]][move.to_pos[2]] =
        g.board[PyIndex(move.from_pos[1], Rows)][PyIndex(move.from_pos[2], Cols)]]

\* lines 251-254
ExecuteMove(g, move) == [g EXCEPT !.board = Relocate(g.board, move.from_pos, move.to_pos)]

\* CaptureMagic clearing the flag of the capturing team
CaptureMagic_wrong_team(g, captured_piece) ==
    IF captured_piece.piece_type = MAGIC
    THEN IF captured_piece.team = BLUE
         THEN [g EXCEPT !.red_magic_alive = FALSE]
         ELSE [g EXCEPT !.blue_magic_alive = FALSE]
    ELSE g

\* lines 256-262
\* CaptureMagic that leaves the flags as they are
CaptureMagic_keeps_flags(g, captured_piece) == g

CaptureMagic(g, captured_piece) ==
    IF captured_piece.piece_type = MAGIC
    THEN IF captured_piece.team = BLUE
         THEN [g EXCEPT !.blue_magic_alive = FALSE]
         ELSE [g EXCEPT !.red_magic_alive = FALSE]
    ELSE g

\* CaptureGeneral awarding the win to the team that lost its General
CaptureGeneral_wrong_winner(g, captured_piece) ==
    IF captured_piece.piece_type = GENERAL
    THEN IF captured_piece.team = BLUE
         THEN [g EXCEPT !.status = BLUE_WIN]
         ELSE [g EXCEPT !.status = RED_WIN]
    ELSE g

\* lines 264-269
CaptureGeneral(g, captured_piece) ==
    IF captured_piece.piece_type = GENERAL
    THEN IF captured_piece.team = BLUE
         THEN [g EXCEPT !.status = RED_WIN]
         ELSE [g EXCEPT !.status = BLUE_WIN]
    ELSE g

\* lines 271-277
\* RecordMove that keeps only the latest entry
RecordMove_overwrites_log(g, move, captured_piece) ==
    [g EXCEPT !.move_history =
        <<[turn |-> g.turn_number, team |-> g.current_team,
           move |-> move, captured |-> captured_piece]>>]

RecordMove(g, move, captured_piece) ==
    [g EXCEPT !.move_history =
        Append(@, [turn |-> g.turn_number, team |-> g.current_team,
                   move |-> move, captured |-> captured_piece])]

\* lines 287-290
\* DoubleMoveTurnActive without the turn test of line 287
DoubleMoveTurnActive_every_turn(g) ==
    /\ g.current_team = RED
    /\ g.red_magic_alive
    /\ g.status = PLAYING

DoubleMoveTurnActive(g) ==
    /\ g.turn_number = DoubleMoveTurn
    /\ g.current_team = RED
    /\ g.red_magic_alive
    /\ g.status = PLAYING

\* EarnsSecondMove without the destination test of line 297
EarnsSecondMove_any_destination(g, move) ==
    /\ DoubleMoveTurnActive(g)
    /\ ~g.red_first_move_done
    /\ is_in_red_zone(move.from_pos[1])

\* lines 292-297: the first move earns a second one
EarnsSecondMove(g, move) ==
    /\ DoubleMoveTurnActive(g)
    /\ ~g.red_first_move_done
    /\ is_in_red_zone(move.from_pos[1])
    /\ is_in_red_zone(move.to_pos[1])

\* BeginSecondMove that records the cell the piece left
BeginSecondMove_records_source(g, move) ==
    [g EXCEPT !.red_double_move_active = TRUE,
              !.red_first_move_done = TRUE,
              !.red_first_move_pos = move.from_pos]

\* lines 299-301
BeginSecondMove(g, move) ==
    [g EXCEPT !.red_double_move_active = TRUE,
              !.red_first_move_done = TRUE,
              !.red_first_move_pos = move.to_pos]

\* lines 309-311 and 321-323
ResetDoubleMove(g) ==
    [g EXCEPT !.red_double_move_active = FALSE,
              !.red_first_move_done = FALSE,
              !.red_first_move_pos = NoPos]

\* SwitchTurn counting Red's half of the turn as a turn of its own
SwitchTurn_counts_every_move(g) ==
    IF g.current_team = RED
    THEN [g EXCEPT !.current_team = BLUE, !.turn_number = @ + 1]
    ELSE [g EXCEPT !.current_team = RED, !.turn_number = @ + 1]

\* lines 313-318
SwitchTurn(g) ==
    IF g.current_team = RED
    THEN [g EXCEPT !.current_team = BLUE]
    ELSE [g EXCEPT !.current_team = RED, !.turn_number = @ + 1]

\* CheckGameEnd testing for stalemate before checkmate
CheckGameEnd_stalemate_first(g) ==
    IF g.status = PLAYING
    THEN LET next_frozen_positions == get_frozen_positions(g)
         IN IF is_stalemate(g.board, g.current_team, g.blue_magic_alive,
                            g.red_magic_alive, g.turn_number, next_frozen_positions)
            THEN [g EXCEPT !.status = DRAW]
            ELSE IF is_checkmate(g.board, g.current_team, g.blue_magic_alive,
                                 g.red_magic_alive, g.turn_number, next_frozen_positions)
                 THEN [g EXCEPT !.status = IF g.current_team = BLUE THEN RED_WIN ELSE BLUE_WIN]
                 ELSE g
    ELSE g

\* lines 325-342
CheckGameEnd(g) ==
    IF g.status = PLAYING
    THEN LET next_frozen_positions == get_frozen_positions(g)
         IN IF is_checkmate(g.board, g.current_team, g.blue_magic_alive,
                            g.red_magic_alive, g.turn_number, next_frozen_positions)
            THEN [g EXCEPT !.status = IF g.current_team = BLUE THEN RED_WIN ELSE BLUE_WIN]
            ELSE IF is_stalemate(g.board, g.current_team, g.blue_magic_alive,
                                 g.red_magic_alive, g.turn_number, next_frozen_positions)
                 THEN [g EXCEPT !.status = DRAW]
                 ELSE g
    ELSE g

\* make_move validating the destination only after the piece was relocated
make_move_check_after_move(g, move, player_id) ==
    LET rejection == Rejection(g, move, player_id)
        to == move.to_pos
        captured_piece == g.board[to[1]][to[2]]
        g1 == ExecuteMove(g, move)
        g2 == CaptureMagic(g1, captured_piece)
        g3 == CaptureGeneral(g2, captured_piece)
        g4 == RecordMove(g3, move, captured_piece)
        g5 == IF DoubleMoveTurnActive(g4) /\ g4.red_first_move_done
              THEN ResetDoubleMove(g4) ELSE g4
        g6 == ResetDoubleMove(SwitchTurn(g5))
        g7 == CheckGameEnd(g6)
    IN IF ~rejection.success
       THEN [game |-> IF rejection.error = "illegal_move" /\ is_valid_position(to[1], to[2])
                      THEN g1 ELSE g,
             result |-> rejection]
       ELSE IF EarnsSecondMove(g4, move)
            THEN [game |-> BeginSecondMove(g4, move),
                  result |-> Success(captured_piece, g4.status, TRUE)]
            ELSE [game |-> g7, result |-> Success(captured_piece, g7.status, FALSE)]

\* make_move returning as soon as a General was captured
make_move_stop_at_general_capture(g, move, player_id) ==
    LET rejection == Rejection(g, move, player_id)
        captured_piece == g.board[move.to_pos[1]][move.to_pos[2]]
        g1 == ExecuteMove(g, move)
        g2 == CaptureMagic(g1, captured_piece)
        g3 == CaptureGeneral(g2, captured_piece)
        g4 == RecordMove(g3, move, captured_piece)
        g5 == IF DoubleMoveTurnActive(g4) /\ g4.red_first_move_done
              THEN ResetDoubleMove(g4) ELSE g4
        g6 == ResetDoubleMove(SwitchTurn(g5))
        g7 == CheckGameEnd(g6)
    IN IF ~rejection.success THEN [game |-> g, result |-> rejection]
       ELSE IF captured_piece.piece_type = GENERAL
            THEN [game |-> ResetDoubleMove(g4),
                  result |-> Success(captured_piece, g4.status, FALSE)]
       ELSE IF EarnsSecondMove(g4, move)
            THEN [game |-> BeginSecondMove(g4, move),
                  result |-> Success(captured_piece, g4.status, TRUE)]
            ELSE [game |-> g7, result |-> Success(captured_piece, g7.status, FALSE)]

\* make_move letting the second move of turn 11 earn yet another move
make_move_second_move_repeats(g, move, player_id) ==
    LET rejection == Rejection(g, move, player_id)
        captured_piece == g.board[move.to_pos[1]][move.to_pos[2]]
        g1 == ExecuteMove(g, move)
        g2 == CaptureMagic(g1, captured_piece)
        g3 == CaptureGeneral(g2, captured_piece)
        g4 == RecordMove(g3, move, captured_piece)
        g5 == ResetDoubleMove(g4)
        g6 == ResetDoubleMove(SwitchTurn(g5))
        g7 == CheckGameEnd(g6)
    IN IF ~rejection.success THEN [game |-> g, result |-> rejection]
       ELSE IF EarnsSecondMove(g5, move)
            THEN [game |-> BeginSecondMove(g4, move),
                  result |-> Success(captured_piece, g4.status, TRUE)]
            ELSE [game |-> g7, result |-> Success(captured_piece, g7.status, FALSE)]

\* GameManager.make_move: the game after the call and the returned dict
make_move(g, move, player_id) ==
    LET rejection == Rejection(g, move, player_id)
        captured_piece == g.board[move.to_pos[1]][move.to_pos[2]]
        g1 == ExecuteMove(g, move)
        g2 == CaptureMagic(g1, captured_piece)
        g3 == CaptureGeneral(g2, captured_piece)
        g4 == RecordMove(g3, move, captured_piece)
        g5 == IF DoubleMoveTurnActive(g4) /\ g4.red_first_move_done
              THEN ResetDoubleMove(g4) ELSE g4
        g6 == ResetDoubleMove(SwitchTurn(g5))
        g7 == CheckGameEnd(g6)
    IN IF ~rejection.success THEN [game |-> g, result |-> rejection]
       ELSE IF EarnsSecondMove(g4, move)
            THEN [game |-> BeginSecondMove(g4, move),
                  result |-> Success(captured_piece, g4.status, TRUE)]
            ELSE [game |-> g7, result |-> Success(captured_piece, g7.status, FALSE)]

\* get_valid_moves_for_piece without the same-piece test of lines 359-360
get_valid_moves_for_piece_any_piece(g, pos) ==
    IF g.status # PLAYING THEN {}
    ELSE get_valid_moves(g.board, pos, g.current_team, g.blue_magic_alive,
                         g.red_magic_alive, g.turn_number, is_second_move(g),
                         get_frozen_positions(g))

\* GameManager.get_valid_moves_for_piece
get_valid_moves_for_piece(g, pos) ==
    IF g.status # PLAYING THEN {}
    ELSE IF is_second_move(g) /\ g.red_first_move_pos # pos THEN {}
    ELSE get_valid_moves(g.board, pos, g.current_team, g.blue_magic_alive,
                         g.red_magic_alive, g.turn_number, is_second_move(g),
                         get_frozen_positions(g))

\* skip_second_move without the guard of lines 374-375
skip_second_move_unguarded(g, player_id) ==
    [game |-> ResetDoubleMove([g EXCEPT !.current_team = BLUE]),
     result |-> Success(None, "", FALSE)]

\* skip_second_move counting the skipped move as the end of the turn
skip_second_move_counts_turn(g, player_id) ==
    IF ~g.red_double_move_active \/ ~g.red_first_move_done
    THEN [game |-> g, result |-> Failure("cannot_skip_now")]
    ELSE [game |-> ResetDoubleMove([g EXCEPT !.current_team = BLUE,
                                             !.turn_number = @ + 1]),
          result |-> Success(None, "", FALSE)]

\* GameManager.skip_second_move
skip_second_move(g, player_id) ==
    IF ~g.red_double_move_active \/ ~g.red_first_move_done
    THEN [game |-> g, result |-> Failure("cannot_skip_now")]
    ELSE [game |-> ResetDoubleMove([g EXCEPT !.current_team = BLUE]),
          result |-> Success(None, "", FALSE)]

\* ------------------------------------------------------------------- state
\* game: the GameState held in GameManager.games; budget: accepted calls left;
\* probe: the arguments of a direct call of a GameLogic method; answer: the
\* method called and the value it returned
VARIABLES game, budget, probe, answer, handlers
vars == <<game, budget, probe, answer, handlers>>

NoProbe == <<>>
\* no request in flight
NoHandlers == <<>>
NoAnswer == [fn |-> "none"]

\* Coordinates a request may carry: the handlers take any integers, so the
\* window covers cells off the board as well as the centre columns.
RequestRows == (0 - Margin)..(Rows - 1 + Margin)
RequestCols ==
    ((0 - Margin)..(-1)) \cup ((CentreCol - Reach)..(CentreCol + Reach))
        \cup (Cols..(Cols - 1 + Margin))
RequestPos == RequestRows \X RequestCols
MoveOf(from, to) == [from_pos |-> from, to_pos |-> to]

\* Matches already in progress: each opening is a list of accepted moves
\* <<from_row, from_col, to_row, to_col>> played from the initial layout.
\* Upper-case letters are Red pieces, lower-case Blue (a/d/s/m/g).
OpeningNone == <<>>

\* OpeningBothAlive
\*   0 aa...saaa
\*   1 ....g....
\*   2 d..dmd.Ad
\*   3 .....dD..
\*   4 .da......
\*   5 .........
\*   6 .........
\*   7 DDD.MDD.D
\*   8 ....Ss...
\*   9 AAA.GSA.A
\*     team=red turn=11 bm=True rm=True st=playing dm=False pos=None
OpeningBothAlive ==
    <<<<7, 3, 4, 3>>, <<2, 5, 6, 5>>, <<9, 3, 8, 4>>, <<0, 3, 2, 5>>, <<4, 3, 8, 3>>,
       <<2, 1, 4, 1>>, <<8, 3, 5, 3>>, <<2, 5, 5, 8>>, <<7, 6, 3, 6>>, <<2, 6, 2, 5>>,
       <<5, 3, 3, 3>>, <<5, 8, 8, 5>>, <<7, 7, 7, 6>>, <<6, 5, 3, 5>>, <<3, 3, 4, 3>>,
       <<2, 2, 4, 2>>, <<9, 7, 2, 7>>, <<0, 4, 1, 4>>, <<4, 3, 4, 2>>, <<0, 2, 4, 2>>>>

\* OpeningRedCanTakeMagic
\*   0 aaasg.aaa
\*   1 ......d..
\*   2 d.d.m..dd
\*   3 .........
\*   4 .........
\*   5 .........
\*   6 ...d.....
\*   7 DD...MsDD
\*   8 ....A....
\*   9 .A.SGSAAA
\*     team=red turn=11 bm=True rm=True st=playing dm=False pos=None
OpeningRedCanTakeMagic ==
    <<<<7, 2, 3, 2>>, <<0, 5, 1, 4>>, <<7, 5, 6, 5>>, <<2, 3, 4, 3>>, <<7, 4, 7, 5>>,
       <<1, 4, 3, 2>>, <<9, 2, 7, 2>>, <<4, 3, 4, 2>>, <<9, 0, 8, 0>>, <<3, 2, 6, 5>>,
       <<7, 2, 4, 2>>, <<6, 5, 7, 6>>, <<4, 2, 2, 2>>, <<2, 5, 6, 5>>, <<7, 3, 3, 3>>,
       <<2, 1, 2, 2>>, <<3, 3, 6, 3>>, <<6, 5, 6, 3>>, <<8, 0, 8, 4>>, <<2, 6, 1, 6>>>>

\* OpeningBlueMagicDead
\*   0 aa..gsaa.
\*   1 ....sS.d.
\*   2 .dd...d..
\*   3 .....d...
\*   4 .........
\*   5 D........
\*   6 ..d......
\*   7 DD..M.DDa
\*   8 ...D.....
\*   9 AAASG.AAA
\*     team=red turn=11 bm=False rm=True st=playing dm=False pos=None
OpeningBlueMagicDead ==
    <<<<7, 3, 8, 3>>, <<0, 3, 1, 4>>, <<9, 5, 7, 3>>, <<2, 8, 1, 8>>, <<7, 3, 6, 4>>,
       <<2, 3, 4, 3>>, <<6, 4, 2, 0>>, <<4, 3, 4, 6>>, <<7, 5, 5, 5>>, <<1, 8, 1, 5>>,
       <<7, 2, 6, 2>>, <<2, 7, 1, 7>>, <<2, 0, 0, 2>>, <<2, 5, 3, 5>>, <<0, 2, 2, 4>>,
       <<4, 6, 6, 6>>, <<2, 4, 1, 5>>, <<6, 6, 6, 2>>, <<5, 5, 5, 0>>, <<0, 8, 7, 8>>>>

\* OpeningRedMagicDead
\*   0 a.asgs.aa
\*   1 ....a.a..
\*   2 ddS.md.dd
\*   3 D.A......
\*   4 ...D.....
\*   5 .........
\*   6 .....d...
\*   7 ......DDD
\*   8 .D.......
\*   9 AA.SdGAAA
\*     team=red turn=11 bm=True rm=False st=playing dm=False pos=None
OpeningRedMagicDead ==
    <<<<7, 5, 8, 5>>, <<2, 5, 6, 5>>, <<9, 5, 8, 4>>, <<0, 6, 1, 6>>, <<7, 3, 8, 3>>,
       <<2, 3, 7, 3>>, <<9, 4, 9, 5>>, <<7, 3, 7, 2>>, <<7, 0, 3, 0>>, <<7, 2, 7, 1>>,
       <<8, 3, 4, 3>>, <<2, 6, 2, 5>>, <<9, 2, 3, 2>>, <<7, 1, 7, 4>>, <<8, 4, 6, 6>>,
       <<0, 1, 1, 1>>, <<8, 5, 8, 1>>, <<7, 4, 9, 4>>, <<6, 6, 2, 2>>, <<1, 1, 1, 4>>>>

\* OpeningBothDead
\*   0 aa.agsa.a
\*   1 ....s..a.
\*   2 d...S..dd
\*   3 ..ddD....
\*   4 .d.......
\*   5 .........
\*   6 ...D.....
\*   7 .DDD...DD
\*   8 DA...dA..
\*   9 A.A.GS.AA
\*     team=red turn=11 bm=False rm=False st=playing dm=False pos=None
OpeningBothDead ==
    <<<<7, 0, 8, 0>>, <<0, 7, 1, 7>>, <<7, 5, 5, 5>>, <<0, 3, 1, 4>>, <<5, 5, 6, 5>>,
       <<0, 2, 0, 3>>, <<6, 5, 6, 3>>, <<2, 5, 7, 5>>, <<9, 1, 8, 1>>, <<7, 5, 7, 4>>,
       <<9, 3, 5, 7>>, <<2, 6, 2, 5>>, <<5, 7, 2, 4>>, <<2, 5, 8, 5>>, <<7, 6, 7, 4>>,
       <<2, 2, 3, 2>>, <<7, 4, 3, 4>>, <<2, 1, 4, 1>>, <<9, 6, 8, 6>>, <<2, 3, 3, 3>>>>

\* OpeningFirstMoveDone
\*   0 aa...saaa
\*   1 ....g....
\*   2 d..dmd.Ad
\*   3 .....dD..
\*   4 .da......
\*   5 .........
\*   6 .........
\*   7 DDDSMDD.D
\*   8 .....s...
\*   9 AAA.GSA.A
\*     team=red turn=11 bm=True rm=True st=playing dm=True pos=(7, 3)
OpeningFirstMoveDone ==
    <<<<7, 3, 4, 3>>, <<2, 5, 6, 5>>, <<9, 3, 8, 4>>, <<0, 3, 2, 5>>, <<4, 3, 8, 3>>,
       <<2, 1, 4, 1>>, <<8, 3, 5, 3>>, <<2, 5, 5, 8>>, <<7, 6, 3, 6>>, <<2, 6, 2, 5>>,
       <<5, 3, 3, 3>>, <<5, 8, 8, 5>>, <<7, 7, 7, 6>>, <<6, 5, 3, 5>>, <<3, 3, 4, 3>>,
       <<2, 2, 4, 2>>, <<9, 7, 2, 7>>, <<0, 4, 1, 4>>, <<4, 3, 4, 2>>, <<0, 2, 4, 2>>,
       <<8, 4, 7, 3>>>>

\* OpeningBlueBoxedIn
\*   0 .........
\*   1 ....D....
\*   2 ...gS....
\*   3 .........
\*   4 .........
\*   5 .....A...
\*   6 ....S....
\*   7 ....M....
\*   8 .........
\*   9 ....G....
\*     team=red turn=34 bm=False rm=True st=playing dm=False pos=None
OpeningBlueBoxedIn ==
    <<<<9, 7, 8, 7>>, <<2, 8, 6, 8>>, <<7, 8, 8, 8>>, <<2, 7, 5, 7>>, <<7, 6, 6, 6>>,
       <<6, 8, 6, 6>>, <<7, 2, 5, 2>>, <<5, 7, 5, 2>>, <<9, 2, 5, 2>>, <<0, 7, 7, 7>>,
       <<7, 3, 7, 2>>, <<0, 8, 8, 8>>, <<9, 6, 6, 6>>, <<8, 8, 9, 8>>, <<7, 5, 7, 7>>,
       <<9, 8, 1, 8>>, <<5, 2, 2, 2>>, <<2, 6, 5, 6>>, <<2, 2, 0, 2>>, <<5, 6, 5, 5>>,
       <<6, 6, 0, 6>>, <<0, 3, 1, 4>>, <<8, 7, 8, 3>>, <<5, 5, 3, 5>>, <<8, 3, 2, 3>>,
       <<2, 1, 2, 3>>, <<0, 6, 1, 6>>, <<3, 5, 3, 1>>, <<7, 1, 5, 1>>, <<0, 5, 1, 6>>,
       <<9, 5, 7, 3>>, <<3, 1, 3, 0>>, <<7, 7, 1, 7>>, <<0, 1, 5, 1>>, <<7, 2, 2, 2>>,
       <<2, 0, 2, 2>>, <<1, 7, 1, 8>>, <<5, 1, 8, 1>>, <<9, 1, 8, 1>>, <<0, 0, 2, 0>>,
       <<0, 2, 2, 2>>, <<3, 0, 3, 1>>, <<1, 8, 1, 6>>, <<2, 0, 7, 0>>, <<1, 6, 1, 4>>,
       <<2, 3, 2, 2>>, <<8, 1, 3, 1>>, <<7, 0, 9, 0>>, <<7, 3, 6, 4>>, <<9, 0, 2, 0>>,
       <<6, 4, 7, 3>>, <<0, 4, 0, 3>>, <<3, 1, 3, 5>>, <<2, 2, 5, 2>>, <<3, 5, 2, 5>>,
       <<0, 3, 1, 3>>, <<9, 3, 7, 1>>, <<2, 0, 6, 0>>, <<7, 1, 6, 0>>, <<5, 2, 5, 4>>,
       <<6, 0, 2, 4>>, <<5, 4, 5, 0>>, <<7, 3, 6, 4>>, <<5, 0, 5, 5>>, <<2, 5, 5, 5>>,
       <<1, 3, 2, 3>>>>

\* OpeningRedAlmostBoxedIn
\*   0 aa...g...
\*   1 ....d....
\*   2 ....d....
\*   3 .........
\*   4 .........
\*   5 .........
\*   6 .....s...
\*   7 ...G.....
\*   8 .........
\*   9 .....a...
\*     team=blue turn=34 bm=False rm=False st=playing dm=False pos=None
OpeningRedAlmostBoxedIn ==
    <<<<7, 5, 4, 5>>, <<2, 1, 5, 1>>, <<4, 5, 4, 4>>, <<5, 1, 1, 1>>, <<7, 6, 7, 5>>,
       <<2, 6, 8, 6>>, <<9, 6, 8, 6>>, <<0, 6, 8, 6>>, <<9, 5, 8, 6>>, <<2, 0, 1, 0>>,
       <<7, 2, 6, 2>>, <<2, 7, 1, 7>>, <<6, 2, 6, 6>>, <<1, 7, 1, 4>>, <<9, 2, 2, 2>>,
       <<0, 7, 7, 7>>, <<8, 6, 7, 7>>, <<0, 2, 2, 2>>, <<7, 0, 2, 0>>, <<2, 2, 2, 1>>,
       <<6, 6, 6, 2>>, <<6, 2, 9, 2>>, <<2, 1, 7, 1>>, <<9, 0, 3, 0>>, <<7, 1, 9, 1>>,
       <<7, 7, 8, 8>>, <<0, 3, 3, 0>>, <<8, 8, 5, 5>>, <<2, 3, 2, 0>>, <<5, 5, 2, 8>>,
       <<3, 0, 7, 4>>, <<9, 7, 9, 6>>, <<7, 4, 9, 2>>, <<9, 6, 7, 6>>, <<0, 8, 2, 8>>,
       <<4, 4, 4, 6>>, <<2, 0, 4, 0>>, <<7, 3, 7, 4>>, <<1, 0, 3, 0>>, <<4, 6, 4, 0>>,
       <<9, 1, 9, 0>>, <<7, 5, 3, 5>>, <<3, 0, 3, 5>>, <<7, 8, 3, 8>>, <<2, 8, 3, 8>>,
       <<4, 0, 1, 0>>, <<9, 2, 7, 4>>, <<1, 0, 1, 1>>, <<1, 4, 1, 1>>, <<9, 8, 3, 8>>,
       <<7, 4, 3, 8>>, <<9, 3, 7, 5>>, <<0, 5, 1, 6>>, <<7, 6, 1, 6>>, <<2, 5, 2, 7>>,
       <<1, 6, 1, 2>>, <<1, 1, 1, 2>>, <<7, 5, 5, 3>>, <<1, 2, 1, 4>>, <<9, 4, 8, 4>>,
       <<3, 8, 6, 5>>, <<5, 3, 3, 5>>, <<0, 4, 0, 5>>, <<3, 5, 2, 4>>, <<2, 7, 2, 4>>,
       <<8, 4, 8, 3>>, <<9, 0, 9, 5>>, <<8, 3, 7, 3>>>>

\* OpeningBothAlive one move earlier: Blue to move in turn 10
OpeningTurnTen == SubSeq(OpeningBothAlive, 1, Len(OpeningBothAlive) - 1)

\* Blue's Magic is dead and a Blue Defense piece stands on row 9 in an
\* empty column; Blue is to move
\*   0 .a.sg.a.a
\*   1 .........
\*   2 .d.dS.d.d
\*   3 .D......s
\*   4 .A....DaD
\*   5 a.a......
\*   6 d.d....d.
\*   7 D.DDM.D..
\*   8 ......SD.
\*   9 A.A.GdAAA
\*     team=blue turn=9 bm=False rm=True st=playing dm=False pos=None
OpeningBlueBehindLines ==
    <<<<7, 1, 3, 1>>, <<2, 0, 6, 0>>, <<7, 8, 4, 8>>, <<0, 0, 5, 0>>, <<9, 1, 4, 1>>,
       <<2, 7, 6, 7>>, <<7, 5, 4, 5>>, <<2, 2, 6, 2>>, <<9, 3, 5, 7>>, <<0, 2, 5, 2>>,
       <<5, 7, 2, 4>>, <<0, 7, 4, 7>>, <<9, 5, 8, 6>>, <<0, 5, 3, 8>>, <<4, 5, 4, 6>>,
       <<2, 5, 9, 5>>, <<7, 7, 8, 7>>>>

\* OpeningRedMatesFirst: Red's first move of turn 11, (8,6) to (8,4), gives
\* check along column 4 and no Blue move ends it; the second move is pending
\*   0 aaas.sa.a
\*   1 ...dgDd..
\*   2 Addm....d
\*   3 ...D....a
\*   4 .Dd......
\*   5 ........d
\*   6 ...M.....
\*   7 .DD...DDD
\*   8 ....A....
\*   9 .AASGSAA.
\*     team=red turn=11 bm=True rm=True st=playing dm=True pos=(8, 4)
OpeningRedMatesFirst ==
    <<<<9, 8, 8, 8>>, <<2, 5, 5, 5>>, <<7, 1, 4, 1>>, <<2, 6, 1, 6>>, <<7, 0, 7, 1>>,
       <<0, 4, 1, 4>>, <<7, 3, 3, 3>>, <<2, 3, 1, 3>>, <<8, 8, 8, 6>>, <<2, 7, 4, 7>>,
       <<9, 0, 4, 0>>, <<2, 4, 2, 3>>, <<7, 4, 6, 4>>, <<0, 7, 3, 7>>, <<4, 0, 2, 0>>,
       <<5, 5, 5, 8>>, <<6, 4, 6, 3>>, <<3, 7, 3, 8>>, <<7, 5, 1, 5>>, <<4, 7, 4, 2>>,
       <<8, 6, 8, 4>>>>

Openings ==
    {OpeningNone, OpeningTurnTen, OpeningBothAlive, OpeningRedCanTakeMagic, OpeningBlueMagicDead,
     OpeningRedMagicDead, OpeningBothDead, OpeningFirstMoveDone,
     OpeningBlueBoxedIn, OpeningRedAlmostBoxedIn, OpeningBlueBehindLines,
     OpeningRedMatesFirst}

\* the game after the moves of an opening; a move the engine refuses ends it
RECURSIVE Replay(_, _)
Replay(g, moves) ==
    IF moves = <<>> THEN g
    ELSE LET m == Head(moves)
             r == make_move(g, MoveOf(<<m[1], m[2]>>, <<m[3], m[4]>>), NoPlayer)
         IN IF r.result.success THEN Replay(r.game, Tail(moves)) ELSE g

Init ==
    /\ game \in {Replay(create_game(LOCAL_MODE, NoPlayer), o) : o \in Openings}
    /\ budget = MaxMoves
    /\ probe = NoProbe
    /\ answer = NoAnswer
    /\ handlers = NoHandlers

\* Rejected calls return the game untouched, so they are stuttering steps of
\* Spec; the actions below are the accepted calls.
MakeMove ==
    /\ budget > 0
    /\ \E from \in RequestPos, to \in RequestPos :
        LET r == make_move(game, MoveOf(from, to), NoPlayer)
        IN /\ r.result.success
           /\ game' = r.game
           /\ budget' = budget - 1
    /\ UNCHANGED <<handlers, probe, answer>>

SkipSecondMove ==
    /\ budget > 0
    /\ LET r == skip_second_move(game, NoPlayer)
       IN /\ r.result.success
          /\ game' = r.game
          /\ budget' = budget - 1
    /\ UNCHANGED <<handlers, probe, answer>>

Next == MakeMove \/ SkipSecondMove

Spec == Init /\ [][Next]_vars

\* ---------------------------------------------- GameLogic called directly
\* The methods of GameLogic are static and take the board, the team, both
\* magic flags, the turn number, the second-move flag and the frozen
\* positions as arguments.  LogicSpec calls them on every board met along
\* the openings, with the other arguments drawn from all their values.

\* the games met while an opening is played, the initial one included
RECURSIVE Played(_, _)
Played(g, moves) ==
    IF moves = <<>> THEN {g}
    ELSE LET m == Head(moves)
             r == make_move(g, MoveOf(<<m[1], m[2]>>, <<m[3], m[4]>>), NoPlayer)
         IN IF r.result.success THEN {g} \cup Played(r.game, Tail(moves)) ELSE {g}

\* a Blue Attack piece on row 9 stands behind Red's General on row 8 of
\* the same column
\*   0 a.asgdas.
\*   1 .........
\*   2 ..ddmD...
\*   3 da.......
\*   4 ...D.....
\*   5 ...D.....
\*   6 d.....Da.
\*   7 ...M..D..
\*   8 ..DG....D
\*   9 A.Aa.SAA.
\*     team=blue turn=31 bm=True rm=True st=playing dm=False pos=None
OpeningAttackerBehind ==
    <<<<7, 3, 6, 3>>, <<2, 6, 5, 6>>, <<6, 3, 7, 3>>, <<2, 7, 2, 6>>, <<7, 8, 6, 8>>,
       <<2, 1, 4, 1>>, <<7, 3, 8, 3>>, <<0, 5, 1, 6>>, <<7, 0, 8, 0>>, <<0, 7, 6, 7>>,
       <<6, 8, 8, 8>>, <<6, 7, 6, 4>>, <<8, 3, 5, 3>>, <<2, 8, 4, 8>>, <<8, 8, 8, 2>>,
       <<2, 5, 3, 5>>, <<7, 5, 6, 5>>, <<2, 6, 3, 6>>, <<5, 3, 5, 2>>, <<2, 0, 1, 0>>,
       <<9, 8, 5, 8>>, <<5, 8, 5, 7>>, <<1, 0, 3, 0>>, <<7, 7, 8, 7>>, <<6, 4, 6, 3>>,
       <<8, 0, 4, 0>>, <<5, 6, 5, 2>>, <<9, 1, 8, 1>>, <<4, 8, 4, 7>>, <<7, 1, 5, 1>>,
       <<0, 1, 3, 1>>, <<8, 7, 8, 8>>, <<6, 3, 8, 3>>, <<8, 1, 8, 0>>, <<3, 5, 5, 5>>,
       <<5, 7, 4, 7>>, <<1, 6, 0, 7>>, <<4, 7, 4, 4>>, <<5, 2, 6, 2>>, <<5, 1, 5, 0>>,
       <<3, 6, 5, 6>>, <<5, 0, 5, 4>>, <<8, 3, 5, 3>>, <<8, 2, 8, 5>>, <<4, 1, 4, 4>>,
       <<7, 2, 8, 2>>, <<4, 4, 4, 3>>, <<9, 4, 8, 4>>, <<5, 3, 9, 3>>, <<5, 4, 5, 3>>,
       <<0, 8, 3, 8>>, <<4, 0, 4, 3>>, <<5, 6, 6, 6>>, <<6, 5, 6, 6>>, <<3, 8, 6, 8>>,
       <<8, 0, 6, 0>>, <<5, 5, 0, 5>>, <<7, 4, 7, 3>>, <<6, 8, 6, 7>>, <<8, 5, 2, 5>>,
       <<6, 2, 6, 0>>, <<8, 4, 8, 3>>>>

\* a Blue Defense piece beside Red's General on row 9: Red has moves,
\* none of them ends the check
\*   0 .aasgsaa.
\*   1 a........
\*   2 .dd.mddad
\*   3 .........
\*   4 .........
\*   5 d......d.
\*   6 .D.....D.
\*   7 D.D.MDD.D
\*   8 S...D.A..
\*   9 AAAdGS.AA
\*     team=red turn=8 bm=True rm=True st=blue_win dm=False pos=None
OpeningRedCheckmated ==
    <<<<7, 1, 6, 1>>, <<2, 7, 5, 7>>, <<7, 3, 8, 3>>, <<0, 7, 2, 7>>, <<9, 6, 8, 6>>,
       <<2, 0, 5, 0>>, <<8, 3, 8, 4>>, <<0, 0, 1, 0>>, <<7, 7, 6, 7>>, <<0, 8, 0, 7>>,
       <<9, 3, 7, 1>>, <<2, 3, 7, 3>>, <<7, 1, 8, 0>>, <<7, 3, 9, 3>>>>

\* OpeningBlueBoxedIn and the move of Red's Attack piece to the column of
\* Blue's General: Blue is in check and has no move
OpeningBlueBoxedInCheck == Append(OpeningBlueBoxedIn, <<5, 5, 5, 3>>)

\* OpeningBlueBehindLines and the capture of Red's General that ends it
OpeningRedGeneralTaken == Append(OpeningBlueBehindLines, <<9, 5, 9, 4>>)

PlayedBoards ==
    {g.board : g \in UNION {Played(create_game(LOCAL_MODE, NoPlayer), o) :
                                o \in Openings \cup {OpeningRedGeneralTaken, OpeningAttackerBehind, OpeningBlueBoxedInCheck,
                                                  OpeningRedCheckmated}}}

ProbeTurns == (DoubleMoveTurn - TurnSpan)..DoubleMoveTurn

\* the frozen positions a caller passes: none (the default) or those
\* GameManager.get_frozen_positions computes from the same arguments
ProbeFrozen(b, team, blue_magic_alive, turn_number) ==
    {{}, get_frozen_positions([board |-> b, current_team |-> team,
                               blue_magic_alive |-> blue_magic_alive,
                               turn_number |-> turn_number])}

ProbesOf(b, team, bm, rm, n, s) ==
    {[board |-> b, team |-> team, blue_magic_alive |-> bm, red_magic_alive |-> rm,
      turn_number |-> n, second_move |-> s, frozen_positions |-> f] :
        f \in ProbeFrozen(b, team, bm, n)}

Probes ==
    UNION {ProbesOf(b, team, bm, rm, n, s) :
             b \in PlayedBoards, team \in {BLUE, RED}, bm \in BOOLEAN, rm \in BOOLEAN,
             n \in ProbeTurns, s \in BOOLEAN}

LogicInit ==
    /\ game = create_game(LOCAL_MODE, NoPlayer)
    /\ budget = 0
    /\ probe \in Probes
    /\ answer = NoAnswer
    /\ handlers = NoHandlers

\* GameLogic.get_valid_moves, called for every cell of the board
GetValidMoves ==
    /\ answer.fn = "none"
    /\ answer' = [fn |-> "get_valid_moves",
                  value |-> [pos \in BoardPos |->
                               get_valid_moves(probe.board, pos, probe.team,
                                   probe.blue_magic_alive, probe.red_magic_alive,
                                   probe.turn_number, probe.second_move,
                                   probe.frozen_positions)]]
    /\ UNCHANGED <<handlers, game, budget, probe>>

IsGeneralInCheck ==
    /\ answer.fn = "none"
    /\ answer' = [fn |-> "is_general_in_check",
                  value |-> is_general_in_check(probe.board, probe.team,
                                probe.blue_magic_alive, probe.red_magic_alive)]
    /\ UNCHANGED <<handlers, game, budget, probe>>

IsCheckmate ==
    /\ answer.fn = "none"
    /\ answer' = [fn |-> "is_checkmate",
                  value |-> is_checkmate(probe.board, probe.team,
                                probe.blue_magic_alive, probe.red_magic_alive,
                                probe.turn_number, probe.frozen_positions)]
    /\ UNCHANGED <<handlers, game, budget, probe>>

IsStalemate ==
    /\ answer.fn = "none"
    /\ answer' = [fn |-> "is_stalemate",
                  value |-> is_stalemate(probe.board, probe.team,
                                probe.blue_magic_alive, probe.red_magic_alive,
                                probe.turn_number, probe.frozen_positions)]
    /\ UNCHANGED <<handlers, game, budget, probe>>

\* the positions handed to the zone functions: the board and Margin cells
\* beyond each of its edges
ZonePositions == ((0 - Margin)..(Rows - 1 + Margin)) \X ((0 - Margin)..(Cols - 1 + Margin))

\* is_valid_position, is_in_blue_zone, is_in_red_zone and membership in the
\* lists of get_*_palace and get_*_magic_zone, called for every position
ZoneFunctions ==
    /\ answer.fn = "none"
    /\ answer' = [fn |-> "zones",
                  value |-> [pos \in ZonePositions |->
                      [is_valid_position |-> is_valid_position(pos[1], pos[2]),
                       is_in_blue_zone |-> is_in_blue_zone(pos[1]),
                       is_in_red_zone |-> is_in_red_zone(pos[1]),
                       blue_palace |-> pos \in get_blue_palace,
                       red_palace |-> pos \in get_red_palace,
                       blue_magic_zone |-> pos \in get_blue_magic_zone,
                       red_magic_zone |-> pos \in get_red_magic_zone]]]
    /\ UNCHANGED <<handlers, game, budget, probe>>

LogicNext == GetValidMoves \/ IsGeneralInCheck \/ IsCheckmate \/ IsStalemate \/ ZoneFunctions

LogicSpec == LogicInit /\ [][LogicNext]_vars

\* ------------------------------------------------- GameManager with players
\* the ids main.py draws for the creator of an online game and for the
\* player who joins it, and the id of somebody else
RedPlayer == "creator"
BluePlayer == "joiner"
Stranger == "stranger"
Players == {RedPlayer, BluePlayer, Stranger}
\* a call carries a player id or none
Callers == Players \cup {NoPlayer}

\* the player to whom the team to move is assigned
PlayerToMove(g) == IF g.current_team = RED THEN g.red_player_id ELSE g.blue_player_id

\* the game after the moves of an opening, each made by the player to move
RECURSIVE ReplayOnline(_, _)
ReplayOnline(g, moves) ==
    IF moves = <<>> THEN g
    ELSE LET m == Head(moves)
             r == make_move(g, MoveOf(<<m[1], m[2]>>, <<m[3], m[4]>>), PlayerToMove(g))
         IN IF r.result.success THEN ReplayOnline(r.game, Tail(moves)) ELSE g

OnlineOpenings == {OpeningNone, OpeningTurnTen, OpeningBothAlive, OpeningFirstMoveDone}

OnlineInit ==
    /\ game \in {create_game(LOCAL_MODE, NoPlayer), create_game(ONLINE_MODE, RedPlayer)}
                \cup {ReplayOnline(join_game(create_game(ONLINE_MODE, RedPlayer), BluePlayer).game, o) :
                         o \in OnlineOpenings}
    /\ budget = MaxMoves
    /\ probe = NoProbe
    /\ answer = NoAnswer
    /\ handlers = NoHandlers

JoinGame ==
    /\ \E p \in Players :
          LET r == join_game(game, p)
          IN /\ r.joined
             /\ game' = r.game
    /\ UNCHANGED <<handlers, budget, probe, answer>>

PlayerMove ==
    /\ budget > 0
    /\ \E p \in Callers, from \in RequestPos, to \in RequestPos :
          LET r == make_move(game, MoveOf(from, to), p)
          IN /\ r.result.success
             /\ game' = r.game
             /\ budget' = budget - 1
    /\ UNCHANGED <<handlers, probe, answer>>

PlayerSkip ==
    /\ budget > 0
    /\ \E p \in Callers :
          LET r == skip_second_move(game, p)
          IN /\ r.result.success
             /\ game' = r.game
             /\ budget' = budget - 1
    /\ UNCHANGED <<handlers, probe, answer>>

OnlineNext == JoinGame \/ PlayerMove \/ PlayerSkip

OnlineSpec == OnlineInit /\ [][OnlineNext]_vars

\* ------------------------------------------------- requests in flight
\* Every handler of main.py is a coroutine of the one event loop started by
\* uvicorn.run (line 306): a handler runs without interruption from its
\* first statement to its next await. GameManager.make_move holds no await,
\* so the only suspension of a move request is the broadcast after it.
REST == "rest"
WEBSOCKET == "websocket"
Tasks == {1, 2}
NoMove == MoveOf(<<0, 0>>, <<0, 0>>)
NoResult == [success |-> FALSE, error |-> "pending"]
IdleTask == [pc |-> "idle", kind |-> REST, move |-> NoMove, player_id |-> NoPlayer,
             result |-> NoResult]

\* the player id a request carries: optional in the body of the REST request
\* (line 69), the path parameter of the websocket (line 209)
CallersOf(kind) == IF kind = REST THEN {NoPlayer} ELSE {RedPlayer, BluePlayer}

\* a handler that gives up the event loop between the validation and the
\* mutation of make_move and finishes the call on the game it had validated
RunToAwait_suspends_inside_make_move(t, g) ==
    IF t.pc = "pending"
    THEN IF "seen" \notin DOMAIN t
         THEN [task |-> [pc |-> "pending", kind |-> t.kind, move |-> t.move,
                         player_id |-> t.player_id, result |-> t.result, seen |-> g],
               game |-> g]
         ELSE LET r == make_move(t.seen, t.move, t.player_id)
              IN [task |-> [t EXCEPT !.pc = "broadcasting", !.result = r.result],
                  game |-> r.game]
    ELSE [task |-> [t EXCEPT !.pc = "done"], game |-> g]

\* one uninterrupted run of a handler, up to its next await or its end:
\* lines 135-148 and 155-158 of the REST handler, lines 231-240 of the
\* websocket loop
RunToAwait(t, g) ==
    IF t.pc = "pending"
    THEN LET r == make_move(g, t.move, t.player_id)
         IN [task |-> [t EXCEPT !.pc = IF t.kind = REST /\ ~r.result.success
                                       THEN "done" ELSE "broadcasting",
                                !.result = r.result],
             game |-> r.game]
    ELSE [task |-> [t EXCEPT !.pc = "done"], game |-> g]

\* the moves the two clients choose from run along the centre column
HandlerPos == RequestRows \X {CentreCol}

HandlerOpenings == {OpeningNone, OpeningTurnTen, OpeningRedCanTakeMagic, OpeningFirstMoveDone}

HandlerInit ==
    /\ game \in {Replay(create_game(LOCAL_MODE, NoPlayer), o) : o \in HandlerOpenings}
                \cup {ReplayOnline(join_game(create_game(ONLINE_MODE, RedPlayer), BluePlayer).game,
                                   OpeningTurnTen)}
    /\ budget = MaxMoves
    /\ probe = NoProbe
    /\ answer = NoAnswer
    /\ handlers = [origin |-> game, task |-> [h \in Tasks |-> IdleTask]]

\* a client sends a move that the game it sees would accept
Issue ==
    /\ \E h \in Tasks, kind \in {REST, WEBSOCKET} :
         /\ handlers.task[h].pc = "idle"
         /\ \E p \in CallersOf(kind), from \in HandlerPos, to \in HandlerPos :
              /\ make_move(game, MoveOf(from, to), p).result.success
              /\ handlers' = [handlers EXCEPT !.task[h] =
                                 [IdleTask EXCEPT !.pc = "pending", !.kind = kind,
                                                  !.move = MoveOf(from, to), !.player_id = p]]
    /\ UNCHANGED <<game, budget, probe, answer>>

\* the event loop runs a handler up to its await
Run ==
    /\ \E h \in Tasks :
         /\ handlers.task[h].pc = "pending"
         /\ LET r == RunToAwait(handlers.task[h], game)
            IN /\ game' = r.game
               /\ handlers' = [handlers EXCEPT !.task[h] = r.task]
    /\ UNCHANGED <<budget, probe, answer>>

\* the broadcast is over and the handler runs to its end
Resume ==
    /\ \E h \in Tasks :
         /\ handlers.task[h].pc = "broadcasting"
         /\ LET r == RunToAwait(handlers.task[h], game)
            IN /\ game' = r.game
               /\ handlers' = [handlers EXCEPT !.task[h] = r.task]
    /\ UNCHANGED <<budget, probe, answer>>

HandlerNext == Issue \/ Run \/ Resume

HandlerSpec == HandlerInit /\ [][HandlerNext]_vars

\* ------------------------------------------------------------- properties
Terminal(g) == g.status \in {BLUE_WIN, RED_WIN, DRAW}
WinOf(team) == IF team = RED THEN RED_WIN ELSE BLUE_WIN
LogLen(g) == Len(g.move_history)
LastEntry(g) == g.move_history[Len(g.move_history)]
\* a step that is an accepted make_move / an accepted skip_second_move
MoveStep == LogLen(game') = LogLen(game) + 1
SkipStep == game' # game /\ game'.move_history = game.move_history
\* the sub-state of the turn-11 double move, read off the recorded position
AwaitingSecondMove(g) == g.red_first_move_pos # NoPos
Tried(from, to) == make_move(game, MoveOf(from, to), NoPlayer)

\* C1: a make_move call that fails any validation of lines 210-249 (game not
\* in progress, no piece, wrong team, second move with another piece,
\* illegal destination, or a fault on the source index) returns a failure
\* and leaves every field of the game - board, current_team, turn_number,
\* both magic flags, the double-move fields, status and the move log - as
\* it was.
C1_RejectedMoveKeepsState ==
    \A from \in RequestPos, to \in RequestPos :
        ~Rejection(game, MoveOf(from, to), NoPlayer).success =>
            \A r \in {Tried(from, to)} : ~r.result.success /\ r.game = game

\* a pending second move, where a call is refused for using another piece
\* and another for an illegal destination
C1_Witness ==
    /\ \E from \in RequestPos, to \in RequestPos :
          Tried(from, to).result.error = "second_move_same_piece"
    /\ \E from \in RequestPos, to \in RequestPos :
          Tried(from, to).result.error = "illegal_move"

\* C2: once status is BlueWin, RedWin or Draw every make_move and every
\* skip_second_move is rejected and the game never changes again.
C2_TerminalIsAbsorbing ==
    /\ [](Terminal(game) =>
            /\ \A from \in RequestPos, to \in RequestPos :
                  \A r \in {Tried(from, to)} : ~r.result.success /\ r.game = game
            /\ ~skip_second_move(game, NoPlayer).result.success
            /\ skip_second_move(game, NoPlayer).game = game)
    /\ [][Terminal(game) => game' = game]_vars

\* a finished game on which further calls are still being made
C2_Witness == Terminal(game) /\ budget > 0

\* C3: an accepted move onto a General leaves status at the mover's win,
\* and that is the status the call reports.
C3_GeneralCaptureWins ==
    [][(MoveStep /\ LastEntry(game').captured.piece_type = GENERAL) =>
          /\ LastEntry(game').captured.team = Enemy(game.current_team)
          /\ game'.status = WinOf(game.current_team)
          /\ Tried(LastEntry(game').move.from_pos,
                   LastEntry(game').move.to_pos).result.game_status
                = WinOf(game.current_team)]_vars

\* Blue has just captured Red's General
C3_Witness ==
    /\ LogLen(game) > 0
    /\ LastEntry(game).captured = Piece(GENERAL, RED)
    /\ game.status = BLUE_WIN

\* C4 as stated: a move capturing a General leaves current_team and
\* turn_number as they were before the call.
C4_GeneralCaptureKeepsTurn ==
    [][(MoveStep /\ LastEntry(game').captured.piece_type = GENERAL) =>
          /\ game'.current_team = game.current_team
          /\ game'.turn_number = game.turn_number]_vars

\* C4 amended: a move capturing a General skips the double-move and the
\* checkmate/stalemate evaluation but still switches the turn: current_team
\* becomes the other team, turn_number grows by one when Blue moved and is
\* unchanged when Red moved, and no second move is pending.
C4_GeneralCaptureSwitchesTurn ==
    [][(MoveStep /\ LastEntry(game').captured.piece_type = GENERAL) =>
          /\ game'.current_team = Enemy(game.current_team)
          /\ game'.turn_number =
                IF game.current_team = BLUE THEN game.turn_number + 1
                ELSE game.turn_number
          /\ ~AwaitingSecondMove(game')]_vars

\* Blue captured Red's General in turn 11 and the game stands at turn 12
C4_Witness ==
    /\ LogLen(game) > 0
    /\ LastEntry(game).captured.piece_type = GENERAL
    /\ LastEntry(game).team = BLUE
    /\ game.current_team = RED
    /\ game.turn_number = LastEntry(game).turn + 1

\* C5: capturing a Magic piece clears exactly the flag of the captured
\* piece's team, any other step changes neither flag, and a cleared flag
\* stays cleared.
C5_MagicFlagsMonotone ==
    [][/\ IF MoveStep /\ LastEntry(game').captured.piece_type = MAGIC
          THEN IF LastEntry(game').captured.team = BLUE
               THEN /\ ~game'.blue_magic_alive
                    /\ game'.red_magic_alive = game.red_magic_alive
               ELSE /\ ~game'.red_magic_alive
                    /\ game'.blue_magic_alive = game.blue_magic_alive
          ELSE /\ game'.blue_magic_alive = game.blue_magic_alive
               /\ game'.red_magic_alive = game.red_magic_alive
       /\ ~game.blue_magic_alive => ~game'.blue_magic_alive
       /\ ~game.red_magic_alive => ~game'.red_magic_alive]_vars

\* a Magic piece was captured during the explored moves, the other team's
\* flag is still set, and a further move was accepted afterwards
C5_Witness ==
    /\ LogLen(game) > 1
    /\ budget = MaxMoves - 2
    /\ game.move_history[LogLen(game) - 1].captured.piece_type = MAGIC
    /\ game.blue_magic_alive # game.red_magic_alive

\* C6: at turn 11 with Red's Magic alive and no second move pending, an
\* accepted Red move from rows 5-9 to rows 5-9 reports a pending second move,
\* records the destination and keeps current_team = Red and turn_number = 11;
\* every other accepted Red move leaves no second move pending and hands the
\* turn to Blue.
C6_DoubleMoveEntry ==
    [][(MoveStep /\ game.current_team = RED) =>
          LET move == LastEntry(game').move
              result == Tried(move.from_pos, move.to_pos).result
          IN IF /\ game.turn_number = 11
                /\ game.red_magic_alive
                /\ ~AwaitingSecondMove(game)
                /\ move.from_pos[1] \in 5..9
                /\ move.to_pos[1] \in 5..9
             THEN /\ result.waiting_second_move
                  /\ is_second_move(game')
                  /\ game'.red_first_move_pos = move.to_pos
                  /\ game'.current_team = RED
                  /\ game'.turn_number = 11
             ELSE /\ ~result.waiting_second_move
                  /\ ~is_second_move(game')
                  /\ ~AwaitingSecondMove(game')
                  /\ game'.current_team = BLUE
                  /\ game'.turn_number = game.turn_number]_vars

\* Red's first move of turn 11 was just accepted and a second one is pending
C6_Witness ==
    /\ budget < MaxMoves
    /\ AwaitingSecondMove(game)
    /\ LastEntry(game).move.to_pos = game.red_first_move_pos
    /\ game.current_team = RED
    /\ game.turn_number = 11

\* C7: with a second move pending at p, a move of p to any legal destination
\* is accepted and leaves no second move pending, current_team = Blue and
\* turn_number = 11; turn_number leaves 11 only by an accepted Blue move,
\* which makes it 12.
C7_SecondMoveThenBlue ==
    /\ [](is_second_move(game) =>
            \A to \in RequestPos :
                to \in get_valid_moves_for_piece(game, game.red_first_move_pos)
                    => Tried(game.red_first_move_pos, to).result.success)
    /\ [][(MoveStep /\ AwaitingSecondMove(game)) =>
             /\ LastEntry(game').move.from_pos = game.red_first_move_pos
             /\ ~AwaitingSecondMove(game')
             /\ ~is_second_move(game')
             /\ game'.current_team = BLUE
             /\ game'.turn_number = 11]_vars
    /\ [][(game.turn_number = 11 /\ game'.turn_number # 11) =>
             /\ MoveStep
             /\ game.current_team = BLUE
             /\ game'.turn_number = 12]_vars

\* Red moved twice in turn 11, Blue answered, and turn 12 began
C7_Witness ==
    /\ LogLen(game) > 2
    /\ game.turn_number = 12
    /\ LastEntry(game).team = BLUE
    /\ game.move_history[LogLen(game) - 1].team = RED
    /\ game.move_history[LogLen(game) - 2].team = RED
    /\ game.move_history[LogLen(game) - 2].turn = 11
    /\ game.move_history[LogLen(game) - 1].move.from_pos
          = game.move_history[LogLen(game) - 2].move.to_pos

\* C8: while a second move is pending at p, every make_move from another
\* position is rejected without changing the game, and
\* get_valid_moves_for_piece is empty for every position other than p.
C8_SecondMoveSamePiece ==
    AwaitingSecondMove(game) =>
        \A from \in RequestPos \ {game.red_first_move_pos} :
            /\ get_valid_moves_for_piece(game, from) = {}
            /\ \A to \in RequestPos :
                  \A r \in {Tried(from, to)} : ~r.result.success /\ r.game = game

\* a second move is pending and another Red piece would otherwise be free
\* to move inside the request window
C8_Witness ==
    /\ AwaitingSecondMove(game)
    /\ \E from \in (RequestPos \cap BoardPos) \ {game.red_first_move_pos} :
          RequestPos \cap get_valid_moves(game.board, from, RED, game.blue_magic_alive,
                             game.red_magic_alive, game.turn_number, FALSE,
                             get_frozen_positions(game)) # {}

\* C9: skip_second_move succeeds exactly when a second move is pending;
\* otherwise (nothing pending, or the game not in progress) it is rejected
\* and the game is unchanged.
C9_SkipOnlyWhenAwaiting ==
    LET r == skip_second_move(game, NoPlayer)
    IN /\ r.result.success <=> AwaitingSecondMove(game)
       /\ game.status # PLAYING => ~r.result.success
       /\ ~r.result.success => r.game = game

\* a second move is pending and skipping it is accepted
C9_Witness ==
    /\ AwaitingSecondMove(game)
    /\ skip_second_move(game, NoPlayer).result.success
    /\ skip_second_move(game, NoPlayer).game # game

\* C10: an accepted skip_second_move sets current_team to Blue, leaves no
\* second move pending and changes nothing else.
C10_SkipFrame ==
    [][SkipStep =>
          /\ game'.current_team = BLUE
          /\ ~AwaitingSecondMove(game') /\ ~is_second_move(game')
          /\ game'.turn_number = game.turn_number
          /\ game'.board = game.board
          /\ game'.blue_magic_alive = game.blue_magic_alive
          /\ game'.red_magic_alive = game.red_magic_alive
          /\ game'.status = game.status
          /\ game'.move_history = game.move_history]_vars

\* Red's second move was skipped: Blue is to move in turn 11 after a single
\* Red move that stayed in rows 5-9
C10_Witness ==
    /\ LogLen(game) > 1
    /\ game.current_team = BLUE
    /\ game.turn_number = 11
    /\ game.red_magic_alive
    /\ ~AwaitingSecondMove(game)
    /\ LastEntry(game).team = RED
    /\ LastEntry(game).move.from_pos[1] \in 5..9
    /\ LastEntry(game).move.to_pos[1] \in 5..9
    /\ game.move_history[LogLen(game) - 1].team = BLUE

\* the Blue entries among the first n entries of the move log
BlueMoves(g, n) == Cardinality({i \in 1..n : g.move_history[i].team = BLUE})

\* C11 as stated: turn_number starts at 1, never decreases and changes only
\* by +1; it grows exactly on an accepted Blue move that does not capture a
\* General, and no Red move, rejected call or skip_second_move changes it.
C11_TurnNumberSkipsGeneralCapture ==
    /\ create_game(LOCAL_MODE, NoPlayer).turn_number = 1
    /\ [][/\ game'.turn_number \in {game.turn_number, game.turn_number + 1}
          /\ game'.turn_number = game.turn_number + 1
                <=> /\ MoveStep
                    /\ game.current_team = BLUE
                    /\ LastEntry(game').captured.piece_type # GENERAL]_vars

\* C11 amended: turn_number starts at 1, never decreases and changes only by
\* +1; it grows exactly on an accepted Blue move, a capture of the General
\* included, and no Red move, rejected call or skip_second_move changes it.
\* So it is always one more than the number of Blue moves in the log, and
\* every log entry carries the count that held when it was made.
C11_TurnNumberCountsBlueMoves ==
    /\ create_game(LOCAL_MODE, NoPlayer).turn_number = 1
    /\ [](/\ game.turn_number = 1 + BlueMoves(game, LogLen(game))
          /\ \A i \in 1..LogLen(game) :
                game.move_history[i].turn = 1 + BlueMoves(game, i - 1))
    /\ [][/\ game'.turn_number \in {game.turn_number, game.turn_number + 1}
          /\ game'.turn_number = game.turn_number + 1
                <=> (MoveStep /\ game.current_team = BLUE)
          /\ \A from \in RequestPos, to \in RequestPos :
                ~Rejection(game, MoveOf(from, to), NoPlayer).success
                    => Tried(from, to).game.turn_number = game.turn_number
          /\ skip_second_move(game, NoPlayer).game.turn_number = game.turn_number]_vars

\* Blue's move, no capture of a General, was accepted after a move of Red
\* and began the next turn with the game still in progress
C11_Witness ==
    /\ budget = MaxMoves - 2
    /\ LastEntry(game).team = BLUE
    /\ LastEntry(game).captured.piece_type # GENERAL
    /\ game.move_history[LogLen(game) - 1].team = RED
    /\ game.turn_number = LastEntry(game).turn + 1
    /\ game.current_team = RED
    /\ game.status = PLAYING

\* the Red pieces standing in rows 0-4, the cells frozen at turn 11
RedInBlueHalf(b) == {p \in BoardPos : p[1] \in 0..4 /\ b[p[1]][p[2]].team = RED}
FrozenFor(g) ==
    IF g.turn_number = 11 /\ g.blue_magic_alive /\ g.current_team = RED
    THEN RedInBlueHalf(g.board) ELSE {}
InCheck(g) ==
    is_general_in_check(g.board, g.current_team, g.blue_magic_alive, g.red_magic_alive)
Checkmated(g) ==
    is_checkmate(g.board, g.current_team, g.blue_magic_alive, g.red_magic_alive,
                 g.turn_number, FrozenFor(g))
Stalemated(g) ==
    is_stalemate(g.board, g.current_team, g.blue_magic_alive, g.red_magic_alive,
                 g.turn_number, FrozenFor(g))

\* C12: after an accepted move that hands the turn over without capturing a
\* General, status is the mover's win if the team now to move is checkmated
\* (with the positions frozen for that team at the new turn_number),
\* otherwise Draw if it is stalemated, otherwise Playing; so Draw is never
\* set while the General of the team now to move is in check.
C12_StatusDecidedForNextTeam ==
    [][(/\ MoveStep
        /\ LastEntry(game').captured.piece_type # GENERAL
        /\ game'.current_team # game.current_team) =>
          /\ game'.status = IF Checkmated(game') THEN WinOf(game.current_team)
                            ELSE IF Stalemated(game') THEN DRAW
                            ELSE PLAYING
          /\ game'.status = DRAW => ~InCheck(game')]_vars

\* a move left the other team in check without any legal move, and the
\* game went to the mover instead of being drawn
C12_Witness ==
    /\ budget < MaxMoves
    /\ LastEntry(game).captured.piece_type # GENERAL
    /\ game.status = WinOf(LastEntry(game).team)
    /\ game.current_team = Enemy(LastEntry(game).team)
    /\ InCheck(game)
    /\ Stalemated(game)

\* C13: in every reachable state with status Playing and for all on-board
\* from and to, make_move passes its validation exactly when to is among
\* get_valid_moves_for_piece(from), both reading the pending second move and
\* the frozen positions off the same game.
C13_ValidationMatchesQuery ==
    game.status = PLAYING =>
        \A from \in BoardPos :
            \A valid_moves \in {get_valid_moves_for_piece(game, from)} :
                \A to \in BoardPos :
                    Rejection(game, MoveOf(from, to), NoPlayer).success
                        <=> to \in valid_moves

\* a second move is pending, the piece that moved first has destinations
\* and another Red piece, free to move otherwise, has none
C13_Witness ==
    /\ game.status = PLAYING
    /\ is_second_move(game)
    /\ get_valid_moves_for_piece(game, game.red_first_move_pos) # {}
    /\ \E from \in BoardPos \ {game.red_first_move_pos} :
          get_valid_moves(game.board, from, RED, game.blue_magic_alive,
                          game.red_magic_alive, game.turn_number, FALSE, {}) # {}

\* ---- direct calls: the board read cell by cell, without the ray loops
At(b, p) == b[p[1]][p[2]]
Step(pos, d, k) == <<pos[1] + k * d[1], pos[2] + k * d[2]>>
\* the first occupied cell from pos in direction d, NoPos if the ray is free
FirstBlocker(b, pos, d) ==
    LET ks == {k \in 1..Rows : Step(pos, d, k) \in BoardPos /\ At(b, Step(pos, d, k)) # None}
    IN IF ks = {} THEN NoPos
       ELSE Step(pos, d, CHOOSE k \in ks : \A j \in ks : k <= j)
\* the cells from pos in direction d up to and including the first blocker
Upto(b, pos, d) ==
    {Step(pos, d, k) : k \in {k \in 1..Rows :
        /\ Step(pos, d, k) \in BoardPos
        /\ \A j \in 1..(k - 1) : At(b, Step(pos, d, j)) = None}}
Vertical == {<<-1, 0>>, <<1, 0>>}
Horizontal == {<<0, -1>>, <<0, 1>>}
PiecesOfType(b, t) == {p \in BoardPos : At(b, p).piece_type = t}
\* the piece at pos passes every filter of get_valid_moves that empties
\* the whole answer: it is of the acting team, not frozen, and not in rows
\* 0-4 during Red's turn 11 or Red's second move while Blue's Magic lives
Movable(pr, pos) ==
    /\ At(pr.board, pos).team = pr.team
    /\ pos \notin pr.frozen_positions
    /\ ~(pr.turn_number = 11 /\ pr.blue_magic_alive /\ pr.team = RED /\ pos[1] \in 0..4)
    /\ ~(pr.second_move /\ pos[1] \in 0..4 /\ pr.blue_magic_alive)
MagicAlive(pr, team) == IF team = BLUE THEN pr.blue_magic_alive ELSE pr.red_magic_alive
\* to is nearer to team's own back rank than from
Retreat(from, to, team) == IF team = BLUE THEN to[1] < from[1] ELSE to[1] > from[1]
Answered(fn) == answer.fn = fn

\* C14 as stated: for every board and every Attack piece, get_valid_moves
\* never includes a horizontal destination that is occupied, and never
\* excludes a vertical first blocker that holds an enemy piece.
C14_AttackAlwaysCapturesVertically ==
    Answered("get_valid_moves") =>
        \A pos \in PiecesOfType(probe.board, ATTACK) :
            /\ \A to \in answer.value[pos] :
                  to[1] = pos[1] => At(probe.board, to) = None
            /\ \A d \in Vertical :
                  \A fb \in {FirstBlocker(probe.board, pos, d)} \ {NoPos} :
                      At(probe.board, fb).team # At(probe.board, pos).team
                          => fb \in answer.value[pos]

\* C14 amended: get_valid_moves never includes a horizontal destination
\* that is occupied; a vertical first blocker that holds an enemy piece is
\* included exactly when the Attack piece passes the filters (acting team,
\* not frozen, not held by the turn-11 rules) and the capture is not a
\* retreat while its team's Magic is dead.
C14_AttackCapturesVerticallyUnlessFiltered ==
    Answered("get_valid_moves") =>
        \A pos \in PiecesOfType(probe.board, ATTACK) :
            /\ \A to \in answer.value[pos] :
                  to[1] = pos[1] => At(probe.board, to) = None
            /\ \A d \in Vertical :
                  \A fb \in {FirstBlocker(probe.board, pos, d)} \ {NoPos} :
                      At(probe.board, fb).team # At(probe.board, pos).team
                          => (fb \in answer.value[pos]
                                <=> /\ Movable(probe, pos)
                                    /\ \/ MagicAlive(probe, At(probe.board, pos).team)
                                       \/ ~Retreat(pos, fb, At(probe.board, pos).team))

\* pos holds a piece of type t of the acting team that passes the filters,
\* and the first blocker from pos in direction d is an enemy piece
EnemyBlocker(pr, t, pos, d) ==
    /\ pos \in PiecesOfType(pr.board, t)
    /\ Movable(pr, pos)
    /\ FirstBlocker(pr.board, pos, d) # NoPos
    /\ At(pr.board, FirstBlocker(pr.board, pos, d)).team = Enemy(pr.team)

\* the acting team's Magic is dead; one of its Attack pieces has an enemy
\* behind it in its column, left out as a retreat, one has an enemy in its
\* column that is included, and one has an enemy as first blocker in its
\* row, left out
C14_Witness ==
    /\ Answered("get_valid_moves")
    /\ ~MagicAlive(probe, probe.team)
    /\ \E pos \in BoardPos : \E d \in Vertical :
          /\ EnemyBlocker(probe, ATTACK, pos, d)
          /\ Retreat(pos, FirstBlocker(probe.board, pos, d), probe.team)
          /\ FirstBlocker(probe.board, pos, d) \notin answer.value[pos]
    /\ \E pos \in BoardPos : \E d \in Vertical :
          /\ EnemyBlocker(probe, ATTACK, pos, d)
          /\ FirstBlocker(probe.board, pos, d) \in answer.value[pos]
    /\ \E pos \in BoardPos : \E d \in Horizontal :
          /\ EnemyBlocker(probe, ATTACK, pos, d)
          /\ FirstBlocker(probe.board, pos, d) \notin answer.value[pos]

\* the cells of the rays from pos in the directions ds, each ray taken up
\* to and including its first occupied cell
Within(b, pos, ds) == UNION {Upto(b, pos, d) : d \in ds}

\* C15 as stated: for every board and every Defense piece, get_valid_moves
\* never includes a vertical destination that is occupied, never excludes a
\* horizontal first blocker that holds an enemy piece, and includes no cell
\* beyond the first occupied cell of a ray.
C15_DefenseAlwaysCapturesHorizontally ==
    Answered("get_valid_moves") =>
        \A pos \in PiecesOfType(probe.board, DEFENSE) :
            /\ \A to \in answer.value[pos] :
                  to[2] = pos[2] => At(probe.board, to) = None
            /\ \A d \in Horizontal :
                  \A fb \in {FirstBlocker(probe.board, pos, d)} \ {NoPos} :
                      At(probe.board, fb).team # At(probe.board, pos).team
                          => fb \in answer.value[pos]
            /\ answer.value[pos] \subseteq Within(probe.board, pos, Orthogonal)

\* C15 amended: get_valid_moves never includes a vertical destination that
\* is occupied and no cell beyond the first occupied cell of a ray; a
\* horizontal first blocker that holds an enemy piece is included exactly
\* when the Defense piece passes the filters (acting team, not frozen, not
\* held by the turn-11 rules).
C15_DefenseCapturesHorizontallyUnlessFiltered ==
    Answered("get_valid_moves") =>
        \A pos \in PiecesOfType(probe.board, DEFENSE) :
            /\ \A to \in answer.value[pos] :
                  to[2] = pos[2] => At(probe.board, to) = None
            /\ \A d \in Horizontal :
                  \A fb \in {FirstBlocker(probe.board, pos, d)} \ {NoPos} :
                      At(probe.board, fb).team # At(probe.board, pos).team
                          => (fb \in answer.value[pos] <=> Movable(probe, pos))
            /\ answer.value[pos] \subseteq Within(probe.board, pos, Orthogonal)

\* Red's turn 11 with Blue's Magic alive: a Red Defense piece outside rows
\* 0-4 takes the enemy that blocks its row, one stops short of the enemy
\* that blocks its column, and a Red Defense piece held in rows 0-4 may not
\* take the enemy that blocks its row
C15_Witness ==
    /\ Answered("get_valid_moves")
    /\ probe.team = RED /\ probe.turn_number = DoubleMoveTurn /\ probe.blue_magic_alive
    /\ \E pos \in BoardPos : \E d \in Horizontal :
          /\ EnemyBlocker(probe, DEFENSE, pos, d)
          /\ FirstBlocker(probe.board, pos, d) \in answer.value[pos]
    /\ \E pos \in BoardPos : \E d \in Vertical :
          /\ EnemyBlocker(probe, DEFENSE, pos, d)
          /\ FirstBlocker(probe.board, pos, d) \notin answer.value[pos]
          /\ answer.value[pos] # {}
    /\ \E pos \in PiecesOfType(probe.board, DEFENSE) : \E d \in Horizontal :
          /\ At(probe.board, pos).team = RED
          /\ pos[1] \in 0..4
          /\ FirstBlocker(probe.board, pos, d) # NoPos
          /\ At(probe.board, FirstBlocker(probe.board, pos, d)).team = BLUE
          /\ answer.value[pos] = {}

\* C16: for every board and every Support piece, get_valid_moves answers
\* only cells on the four diagonals of the piece, none of them held by a
\* piece of its own team, and none beyond the first occupied cell of its
\* diagonal; that cell is answered only if it holds an enemy piece.
C16_SupportStopsAtFirstBlocker ==
    Answered("get_valid_moves") =>
        \A pos \in PiecesOfType(probe.board, SUPPORT) :
            /\ \A to \in answer.value[pos] :
                  /\ is_diagonal(pos, to)
                  /\ At(probe.board, to) # None
                        => At(probe.board, to).team # At(probe.board, pos).team
            /\ answer.value[pos] \subseteq Within(probe.board, pos, Diagonal)
            /\ \A d \in Diagonal :
                  \A fb \in {FirstBlocker(probe.board, pos, d)} \ {NoPos} :
                      /\ fb \in answer.value[pos]
                            => At(probe.board, fb).team # At(probe.board, pos).team
                      /\ \A k \in 1..Rows :
                            Step(fb, d, k) \notin answer.value[pos]

\* a Support piece takes the enemy that blocks one of its diagonals, a
\* Support piece that has moves stops short of a piece of its own team on
\* a diagonal, and cells lie beyond both blockers
C16_Witness ==
    /\ Answered("get_valid_moves")
    /\ \E pos \in BoardPos : \E d \in Diagonal :
          /\ EnemyBlocker(probe, SUPPORT, pos, d)
          /\ FirstBlocker(probe.board, pos, d) \in answer.value[pos]
          /\ Step(FirstBlocker(probe.board, pos, d), d, 1) \in BoardPos
    /\ \E pos \in PiecesOfType(probe.board, SUPPORT) : \E d \in Diagonal :
          /\ answer.value[pos] # {}
          /\ FirstBlocker(probe.board, pos, d) # NoPos
          /\ FirstBlocker(probe.board, pos, d) # Step(pos, d, 1)
          /\ At(probe.board, FirstBlocker(probe.board, pos, d)).team = probe.team
          /\ Step(FirstBlocker(probe.board, pos, d), d, 1) \in BoardPos
          /\ At(probe.board, Step(FirstBlocker(probe.board, pos, d), d, 1)) = None

\* the cell a step of the game empties, and the cell its piece lands on
Vacated == CHOOSE p \in BoardPos : At(game.board, p) # None /\ At(game'.board, p) = None
Landed == CHOOSE q \in BoardPos : At(game'.board, q) # None /\ At(game'.board, q) # At(game.board, q)
TeamMagicAlive(g, team) == IF team = BLUE THEN g.blue_magic_alive ELSE g.red_magic_alive

\* C17: while a team's Magic is dead, get_valid_moves_for_piece answers no
\* cell nearer to that team's back rank than the piece, for any piece of the
\* team, and no accepted move of the team takes a piece nearer to its back
\* rank.
C17_NoRetreatWithoutMagic ==
    /\ [](\A pos \in BoardPos :
            (At(game.board, pos) # None /\ ~TeamMagicAlive(game, At(game.board, pos).team))
                => \A to \in get_valid_moves_for_piece(game, pos) :
                       ~Retreat(pos, to, At(game.board, pos).team))
    /\ [][(MoveStep /\ ~TeamMagicAlive(game, game.current_team))
            => ~Retreat(Vacated, Landed, game.current_team)]_vars

\* Blue's Magic is dead and Blue's last move took a piece from row 9 to a
\* lower row
C17_Witness ==
    /\ ~game.blue_magic_alive
    /\ LogLen(game) > 0
    /\ LastEntry(game).team = BLUE
    /\ Cell(game.board, LastEntry(game).move.to_pos).team = BLUE
    /\ PyIndex(LastEntry(game).move.from_pos[1], Rows) = Rows - 1
    /\ PyIndex(LastEntry(game).move.to_pos[1], Rows) < Rows - 1

\* every pair of indices that Python accepts for a cell of the board, and
\* those that address the cell pos
Indexable == ((0 - Rows)..(Rows - 1)) \X ((0 - Cols)..(Cols - 1))
Addressing(pos) == {from \in Indexable : <<PyIndex(from[1], Rows), PyIndex(from[2], Cols)>> = pos}
FreezeOn(g) == g.turn_number = 11 /\ g.blue_magic_alive /\ g.current_team = RED

\* C18: when turn_number is 11, Blue's Magic is alive and Red is to move,
\* get_frozen_positions is the set of Red pieces in rows 0-4, every such
\* piece has no legal destination and no make_move from its cell, however
\* the cell is addressed, is accepted; in every other situation
\* get_frozen_positions is empty.
C18_TurnElevenFreeze ==
    /\ FreezeOn(game) =>
          /\ get_frozen_positions(game) = RedInBlueHalf(game.board)
          /\ \A pos \in RedInBlueHalf(game.board) :
                /\ get_valid_moves_for_piece(game, pos) = {}
                /\ \A from \in Addressing(pos), to \in Indexable :
                      ~Rejection(game, MoveOf(from, to), NoPlayer).success
    /\ ~FreezeOn(game) => get_frozen_positions(game) = {}

\* Red is to move in turn 11 with Blue's Magic alive: a Red piece in rows
\* 0-4 that its own movement rule would let move is frozen, and a Red piece
\* outside rows 0-4 has a legal destination
C18_Witness ==
    /\ FreezeOn(game)
    /\ game.status = PLAYING
    /\ \E pos \in RedInBlueHalf(game.board) :
          /\ RawMoves(game.board, pos, At(game.board, pos)) # {}
          /\ pos \in get_frozen_positions(game)
    /\ \E pos \in BoardPos :
          /\ At(game.board, pos).team = RED
          /\ get_valid_moves_for_piece(game, pos) # {}

\* the directions in which a piece type captures
CaptureRays(t) ==
    CASE t = ATTACK -> Vertical
      [] t = DEFENSE -> Horizontal
      [] t = SUPPORT -> Diagonal
      [] OTHER -> {}
\* the piece at pos has target as the first occupied cell of a ray along
\* which its type captures
Aims(b, pos, target) ==
    \E d \in CaptureRays(At(b, pos).piece_type) : FirstBlocker(b, pos, d) = target
Generals(b, team) == {p \in BoardPos : At(b, p) = Piece(GENERAL, team)}
\* the enemy pieces that give check to team's General
Checkers(pr, team) ==
    {pos \in BoardPos :
        /\ At(pr.board, pos).team = Enemy(team)
        /\ \E gp \in Generals(pr.board, team) :
              /\ Aims(pr.board, pos, gp)
              /\ MagicAlive(pr, Enemy(team)) \/ ~Retreat(pos, gp, Enemy(team))}

\* C19: is_general_in_check is true exactly when the team has no General on
\* the board or an enemy Attack, Defense or Support piece has the General as
\* the first occupied cell of a ray along which it captures (column, row,
\* diagonal), the capture not being a move backward if the enemy's Magic is
\* dead; enemy Magic and General pieces never give check, and neither the
\* turn number nor the frozen positions matter.
C19_CheckIsCaptureThreat ==
    Answered("is_general_in_check") =>
        /\ answer.value = (Generals(probe.board, probe.team) = {}
                             \/ Checkers(probe, probe.team) # {})
        /\ \A pos \in Checkers(probe, probe.team) :
              At(probe.board, pos).piece_type \in {ATTACK, DEFENSE, SUPPORT}

\* the enemy's Magic is dead and an enemy Attack piece has the General as
\* the first occupied cell of its column, behind it: no check, although the
\* piece's own movement rule lists the General's cell
C19_Witness ==
    /\ Answered("is_general_in_check")
    /\ ~answer.value
    /\ ~MagicAlive(probe, Enemy(probe.team))
    /\ \E pos \in PiecesOfType(probe.board, ATTACK) :
          /\ At(probe.board, pos).team = Enemy(probe.team)
          /\ \E gp \in Generals(probe.board, probe.team) :
                /\ Aims(probe.board, pos, gp)
                /\ gp \in RawMoves(probe.board, pos, At(probe.board, pos))
                /\ Retreat(pos, gp, Enemy(probe.team))

\* team's General is in check on the board of pr: it is missing or an
\* enemy piece gives check
Threatened(pr, team) == Generals(pr.board, team) = {} \/ Checkers(pr, team) # {}
\* the legal destinations of the piece at pos for team, not as a second move
Destinations(pr, team, pos) ==
    get_valid_moves(pr.board, pos, team, pr.blue_magic_alive, pr.red_magic_alive,
                    pr.turn_number, FALSE, pr.frozen_positions)
\* pr after the piece at pos went to cell to, all flags as they were
After(pr, pos, to) ==
    [pr EXCEPT !.board = [[pr.board EXCEPT ![to[1]][to[2]] = At(pr.board, pos)]
                              EXCEPT ![pos[1]][pos[2]] = None]]
\* the moves of team that end the check
Reliefs(pr, team) ==
    {m \in BoardPos \X BoardPos :
        /\ At(pr.board, m[1]).team = team
        /\ m[2] \in Destinations(pr, team, m[1])
        /\ ~Threatened(After(pr, m[1], m[2]), team)}
LegalMoves(pr, team) ==
    {m \in BoardPos \X BoardPos :
        At(pr.board, m[1]).team = team /\ m[2] \in Destinations(pr, team, m[1])}

\* C20: is_checkmate is true exactly when the team's General is in check
\* and, for every piece of the team and every legal destination of it (not
\* as a second move, with the frozen positions given), the General is still
\* in check on the board after that one relocation, under the same magic
\* flags; it is false whenever the team is not in check.
C20_CheckmateIsCheckWithoutRelief ==
    Answered("is_checkmate") =>
        /\ answer.value = (Threatened(probe, probe.team) /\ Reliefs(probe, probe.team) = {})
        /\ ~Threatened(probe, probe.team) => ~answer.value

\* the team's General is on the board and in check, the team has legal
\* moves, none of them ends the check, and is_checkmate answers true
C20_Witness ==
    /\ Answered("is_checkmate")
    /\ answer.value
    /\ Generals(probe.board, probe.team) # {}
    /\ Checkers(probe, probe.team) # {}
    /\ LegalMoves(probe, probe.team) # {}
    /\ Reliefs(probe, probe.team) = {}

\* some piece of team has a legal destination, not as a second move
HasMove(pr, team) ==
    \E pos \in BoardPos : At(pr.board, pos).team = team /\ Destinations(pr, team, pos) # {}

\* C21: is_stalemate is true exactly when no piece of the team has a legal
\* destination (not as a second move), whether or not the team is in check;
\* for a team that is not in check and has no legal destination,
\* is_stalemate is true and is_checkmate is false.
C21_StalemateIsNoLegalMove ==
    /\ Answered("is_stalemate") =>
          /\ answer.value = ~HasMove(probe, probe.team)
          /\ (~Threatened(probe, probe.team) /\ ~HasMove(probe, probe.team)) => answer.value
    /\ Answered("is_checkmate") =>
          ((~Threatened(probe, probe.team) /\ ~HasMove(probe, probe.team)) => ~answer.value)

\* outside turn 11, a team whose General is on the board and not in check
\* has no legal destination for any of its pieces: is_stalemate answers true
C21_Witness ==
    /\ Answered("is_stalemate")
    /\ answer.value
    /\ probe.turn_number # DoubleMoveTurn
    /\ Generals(probe.board, probe.team) # {}
    /\ Checkers(probe, probe.team) = {}
    /\ ~HasMove(probe, probe.team)

\* the pieces of a type and team on a board, and the rows they stand on
Count(b, t, team) == Cardinality({p \in BoardPos : At(b, p) = Piece(t, team)})
RowsOf(b, team) == {p[1] : p \in {q \in BoardPos : At(b, q).team = team}}
\* the layout of a new game: per team 6 Attack, 2 Support, 1 General,
\* 8 Defense and 1 Magic piece, Blue on rows 0 and 2, Red on rows 9 and 7
FixedLayout(b) ==
    /\ \A team \in {BLUE, RED} :
          /\ Count(b, ATTACK, team) = 6
          /\ Count(b, SUPPORT, team) = 2
          /\ Count(b, GENERAL, team) = 1
          /\ Count(b, DEFENSE, team) = 8
          /\ Count(b, MAGIC, team) = 1
    /\ RowsOf(b, BLUE) = {0, 2}
    /\ RowsOf(b, RED) = {9, 7}
\* no move has been made and nobody has joined
NewlyCreated(g) == LogLen(g) = 0 /\ g.blue_player_id = NoPlayer
StartsFresh(g) ==
    /\ g.current_team = RED
    /\ g.turn_number = 1
    /\ g.blue_magic_alive /\ g.red_magic_alive
    /\ ~AwaitingSecondMove(g) /\ ~g.red_double_move_active /\ ~g.red_first_move_done
    /\ g.move_history = <<>>
    /\ FixedLayout(g.board)

\* C22 as stated: every newly created game has Red to move, turn_number 1,
\* both Magic flags true, no second move pending, an empty log, status
\* Playing and the fixed layout.
C22_NewGameIsPlaying ==
    NewlyCreated(game) => (StartsFresh(game) /\ game.status = PLAYING)

\* C22 amended: every newly created game has Red to move, turn_number 1,
\* both Magic flags true, no second move pending, an empty log and the
\* fixed layout; its status is Playing for a local game and Waiting for an
\* online game, which becomes Playing when the second player joins.
C22_NewGameIsPlayingOrWaiting ==
    /\ NewlyCreated(game) =>
          /\ StartsFresh(game)
          /\ game.status = IF game.mode = ONLINE_MODE THEN WAITING ELSE PLAYING
    /\ \A p \in Players :
          (NewlyCreated(game) /\ game.mode = ONLINE_MODE) =>
              /\ join_game(game, p).joined
              /\ join_game(game, p).game.status = PLAYING
              /\ StartsFresh(join_game(game, p).game)

\* an online game that its creator has just made: Waiting, nobody joined
C22_Witness ==
    /\ NewlyCreated(game)
    /\ game.mode = ONLINE_MODE
    /\ game.status = WAITING
    /\ game.red_player_id = RedPlayer

\* C28: in an online game make_move and skip_second_move succeed only for
\* the player assigned to the team to move; a call with another player's
\* id or with no id is refused, and no move is accepted while the game
\* waits for its second player.
C28_OnlyThePlayerToMoveActs ==
    game.mode = ONLINE_MODE =>
        /\ \A p \in Callers \ {PlayerToMove(game)} :
              /\ \A from \in RequestPos, to \in RequestPos :
                    ~Rejection(game, MoveOf(from, to), p).success
              /\ ~skip_second_move(game, p).result.success
        /\ game.status = WAITING =>
              \A p \in Callers, from \in RequestPos, to \in RequestPos :
                  ~Rejection(game, MoveOf(from, to), p).success

\* an online game in which Red's second move is pending: the joiner's
\* skip_second_move succeeds, and so does a move that carries no player id
C28_Witness ==
    /\ game.mode = ONLINE_MODE
    /\ game.status = PLAYING
    /\ AwaitingSecondMove(game)
    /\ PlayerToMove(game) = RedPlayer
    /\ skip_second_move(game, BluePlayer).result.success
    /\ \E from \in RequestPos, to \in RequestPos :
          Rejection(game, MoveOf(from, to), NoPlayer).success

\* the entry that an accepted move from cell from to cell to adds to the log
EntryOf(g, from, to) ==
    [turn |-> g.turn_number, team |-> g.current_team,
     move |-> MoveOf(from, to), captured |-> Cell(g.board, to)]

\* C24: the move log is append-only. An accepted make_move appends exactly
\* one entry with the turn_number and team from before the turn advance, the
\* (from, to) pair and the captured piece or none; no entry is ever changed
\* or removed; a rejected call and skip_second_move append nothing.
C24_LogIsAppendOnly ==
    [][/\ LogLen(game') >= LogLen(game)
       /\ \A i \in 1..LogLen(game) : game'.move_history[i] = game.move_history[i]
       /\ MakeMove =>
             \E from \in RequestPos, to \in RequestPos :
                 /\ Rejection(game, MoveOf(from, to), NoPlayer).success
                 /\ game'.move_history = Append(game.move_history, EntryOf(game, from, to))
       /\ SkipSecondMove => game'.move_history = game.move_history
       /\ \A from \in RequestPos, to \in RequestPos :
             ~Rejection(game, MoveOf(from, to), NoPlayer).success
                 => Tried(from, to).game.move_history = game.move_history]_vars

\* the log ends with the entry of a capture made by Red in turn 11 and the
\* entry of Blue's answer in the same turn
C24_Witness ==
    /\ LogLen(game) >= 2
    /\ LastEntry(game).team = BLUE
    /\ game.move_history[LogLen(game) - 1].team = RED
    /\ game.move_history[LogLen(game) - 1].turn = DoubleMoveTurn
    /\ game.move_history[LogLen(game) - 1].captured # None
    /\ LastEntry(game).turn = DoubleMoveTurn

OffBoard == ZonePositions \ BoardPos
InNoPalaceOrMagicZone(z) ==
    ~z.is_valid_position /\ ~z.blue_palace /\ ~z.red_palace
        /\ ~z.blue_magic_zone /\ ~z.red_magic_zone

\* C25 as stated: for every position outside the board, is_valid_position
\* and every zone function (home halves, palaces, Magic zones) answer false.
C25_OffBoardIsInNoZone ==
    Answered("zones") =>
        \A pos \in OffBoard :
            /\ InNoPalaceOrMagicZone(answer.value[pos])
            /\ ~answer.value[pos].is_in_blue_zone
            /\ ~answer.value[pos].is_in_red_zone

\* C25 amended: for every position outside the board, is_valid_position,
\* the palaces and the Magic zones answer false; the home-half functions
\* read the row alone, so they answer false when the row is outside 0-9 and
\* otherwise answer for the row (0-4 Blue, 5-9 Red) whatever the column.
C25_OffBoardIsInNoZoneButItsRow ==
    Answered("zones") =>
        \A pos \in OffBoard :
            /\ InNoPalaceOrMagicZone(answer.value[pos])
            /\ answer.value[pos].is_in_blue_zone = (pos[1] \in 0..4)
            /\ answer.value[pos].is_in_red_zone = (pos[1] \in 5..9)

\* the zone functions were called: the cell right of row 2 is off the
\* board and in Blue's home half, the cell below column 4 is in no zone
C25_Witness ==
    /\ Answered("zones")
    /\ ~answer.value[<<2, Cols>>].is_valid_position
    /\ answer.value[<<2, Cols>>].is_in_blue_zone
    /\ ~answer.value[<<Rows, CentreCol>>].is_in_red_zone
    /\ ~answer.value[<<Rows, CentreCol>>].red_palace

PalaceOf(team) == IF team = BLUE THEN (0..2) \X (3..5) ELSE (7..9) \X (3..5)
MagicZoneOf(team) == IF team = BLUE THEN (2..4) \X (3..5) ELSE (5..7) \X (3..5)
\* every General stands in its palace and every Magic piece in its zone
Confined(b) ==
    \A pos \in BoardPos :
        /\ At(b, pos).piece_type = GENERAL => pos \in PalaceOf(At(b, pos).team)
        /\ At(b, pos).piece_type = MAGIC => pos \in MagicZoneOf(At(b, pos).team)
OneOrthogonalStep(from, to) == Abs(from[1] - to[1]) + Abs(from[2] - to[2]) = 1

\* C26: in every state reached from the initial layout every General
\* stands in its own palace and every Magic piece in its own Magic zone; an
\* accepted move of a General or Magic piece goes exactly one orthogonal
\* step, onto an empty cell, and captures nothing.
C26_GeneralAndMagicConfined ==
    /\ [](Confined(game.board))
    /\ [][(MoveStep /\ At(game.board, Vacated).piece_type \in {GENERAL, MAGIC}) =>
              /\ OneOrthogonalStep(Vacated, Landed)
              /\ At(game.board, Landed) = None
              /\ LastEntry(game').captured = None
              /\ At(game'.board, Landed) = At(game.board, Vacated)]_vars

\* the last move was made by a General, and a Magic piece stands off the
\* centre column of its zone
C26_Witness ==
    /\ LogLen(game) > 0
    /\ Cell(game.board, LastEntry(game).move.to_pos).piece_type = GENERAL
    /\ Cell(game.board, LastEntry(game).move.to_pos).team = LastEntry(game).team
    /\ \E pos \in BoardPos : At(game.board, pos).piece_type = MAGIC /\ pos[2] # CentreCol

\* entries i and i + 1 of the log are moves of the same team
SameTeamTwice(g, i) == g.move_history[i].team = g.move_history[i + 1].team

\* C27: accepted moves alternate between the teams, Red first, except that
\* in turn 11 Red may move twice in a row, the second time with the piece
\* that made the first move; Red never moves three times in a row, never
\* twice in a row in another turn, and Blue never moves twice in a row.
C27_MovesAlternate ==
    /\ LogLen(game) > 0 => game.move_history[1].team = RED
    /\ \A i \in 1..(LogLen(game) - 1) :
          SameTeamTwice(game, i) =>
              /\ game.move_history[i].team = RED
              /\ game.move_history[i].turn = 11
              /\ game.move_history[i + 1].turn = 11
              /\ game.move_history[i + 1].move.from_pos = game.move_history[i].move.to_pos
    /\ \A i \in 1..(LogLen(game) - 2) :
          ~(SameTeamTwice(game, i) /\ SameTeamTwice(game, i + 1))

\* Red moved twice in a row in turn 11 and Blue has answered
C27_Witness ==
    /\ LogLen(game) >= 3
    /\ LastEntry(game).team = BLUE
    /\ SameTeamTwice(game, LogLen(game) - 2)
    /\ game.move_history[LogLen(game) - 2].team = RED

\* the destinations of the piece on cell pos of game g, as a second move or not
DestinationsAs(g, pos, second) ==
    get_valid_moves(g.board, pos, g.current_team, g.blue_magic_alive, g.red_magic_alive,
                    g.turn_number, second, get_frozen_positions(g))

\* C29: whenever a second move is pending on cell p, the status is Playing,
\* Red is to move, turn_number is 11, Red's Magic is alive and p holds a Red
\* piece in rows 5-9. So no step taken while it is pending captures Red's
\* Magic, the next accepted move is Red's from p, and the second-move
\* restriction for rows 0-4 removes no destination of an actual second move.
C29_SecondMovePendingInRedHalf ==
    /\ [](AwaitingSecondMove(game) =>
            /\ game.status = PLAYING
            /\ game.current_team = RED
            /\ game.turn_number = 11
            /\ game.red_magic_alive
            /\ game.red_double_move_active /\ game.red_first_move_done
            /\ game.red_first_move_pos \in BoardPos
            /\ At(game.board, game.red_first_move_pos).team = RED
            /\ game.red_first_move_pos[1] \in 5..9
            /\ DestinationsAs(game, game.red_first_move_pos, TRUE)
                  = DestinationsAs(game, game.red_first_move_pos, FALSE))
    /\ [][AwaitingSecondMove(game) =>
              /\ game'.red_magic_alive
              /\ Count(game'.board, MAGIC, RED) = 1
              /\ MoveStep => /\ LastEntry(game').team = RED
                              /\ LastEntry(game').move.from_pos = game.red_first_move_pos]_vars

\* a second move is pending on a cell from which the piece can move, with
\* Blue's Magic alive and a Blue piece standing in rows 5-9
C29_Witness ==
    /\ AwaitingSecondMove(game)
    /\ game.blue_magic_alive
    /\ DestinationsAs(game, game.red_first_move_pos, TRUE) # {}
    /\ \E pos \in BoardPos : At(game.board, pos).team = BLUE /\ pos[1] \in 5..9

PieceCount(b, team) == Cardinality({p \in BoardPos : At(b, p).team = team})

\* C30: in every state reached from the initial layout each team has at
\* most one Magic piece on the board and its magic-alive flag is true
\* exactly when that piece is on the board; an accepted move removes at
\* most one piece, always of the team that did not move, and no other step
\* changes the board.
C30_MagicFlagsMatchBoard ==
    /\ [](\A team \in {BLUE, RED} :
            /\ Count(game.board, MAGIC, team) <= 1
            /\ TeamMagicAlive(game, team) <=> Count(game.board, MAGIC, team) = 1)
    /\ [][IF MoveStep THEN
               /\ PieceCount(game'.board, game.current_team)
                     = PieceCount(game.board, game.current_team)
               /\ PieceCount(game'.board, Enemy(game.current_team))
                     = PieceCount(game.board, Enemy(game.current_team))
                         - (IF LastEntry(game').captured = None THEN 0 ELSE 1)
               /\ \/ LastEntry(game').captured = None
                  \/ LastEntry(game').captured.team = Enemy(game.current_team)
               /\ LastEntry(game').captured = At(game.board, Landed)
           ELSE game'.board = game.board]_vars

\* a Magic piece was captured by the last move: it is off the board and
\* its team's flag is false, the other team's Magic is on the board
C30_Witness ==
    /\ LogLen(game) > 0
    /\ LastEntry(game).captured.piece_type = MAGIC
    /\ ~TeamMagicAlive(game, LastEntry(game).captured.team)
    /\ Count(game.board, MAGIC, LastEntry(game).captured.team) = 0
    /\ Count(game.board, MAGIC, LastEntry(game).team) = 1

Called(t) == t.pc \in {"broadcasting", "done"} /\ t.result # NoResult
\* the game and the two results of running call x, then call y, on game g
InOrder(g, x, y) ==
    LET r1 == make_move(g, x.move, x.player_id)
        r2 == make_move(r1.game, y.move, y.player_id)
    IN [game |-> r2.game, first |-> r1.result, second |-> r2.result]

\* C23: two make_move requests issued against the same match, each through
\* the REST handler or a websocket handler, leave the game that running the
\* two calls one after the other in some order leaves, and each call returns
\* the result it has in that order; a single call leaves the game and the
\* result of make_move on the game the requests were issued against.
C23_MoveRequestsRunOneAfterTheOther ==
    LET a == handlers.task[1]
        b == handlers.task[2]
        ab == InOrder(handlers.origin, a, b)
        ba == InOrder(handlers.origin, b, a)
    IN handlers # NoHandlers =>
         /\ ~Called(a) /\ ~Called(b) => game = handlers.origin
         /\ Called(a) /\ ~Called(b) =>
               /\ game = make_move(handlers.origin, a.move, a.player_id).game
               /\ a.result = make_move(handlers.origin, a.move, a.player_id).result
         /\ Called(b) /\ ~Called(a) =>
               /\ game = make_move(handlers.origin, b.move, b.player_id).game
               /\ b.result = make_move(handlers.origin, b.move, b.player_id).result
         /\ Called(a) /\ Called(b) =>
               \/ game = ab.game /\ a.result = ab.first /\ b.result = ab.second
               \/ game = ba.game /\ b.result = ba.first /\ a.result = ba.second

\* both requests were issued before either ran, one through each kind of
\* handler; the second to run was refused on the game the first had left,
\* although the game both were issued against accepts it
C23_Witness ==
    /\ handlers # NoHandlers
    /\ Called(handlers.task[1]) /\ Called(handlers.task[2])
    /\ handlers.task[1].kind # handlers.task[2].kind
    /\ \E h \in Tasks :
         /\ ~handlers.task[h].result.success
         /\ make_move(handlers.origin, handlers.task[h].move,
                      handlers.task[h].player_id).result.success
         /\ handlers.task[3 - h].result.success

\* C31: while the status is Playing each team has exactly one General on
\* the board; a General leaves the board only by an accepted move of the
\* other team that captures it, and that move leaves the status at the
\* capturing team's win.
C31_OneGeneralEachWhilePlaying ==
    /\ [](game.status = PLAYING =>
            \A team \in {BLUE, RED} : Cardinality(Generals(game.board, team)) = 1)
    /\ [][\A team \in {BLUE, RED} :
            Cardinality(Generals(game'.board, team)) < Cardinality(Generals(game.board, team))
              => /\ MoveStep
                 /\ game.current_team = Enemy(team)
                 /\ LastEntry(game').captured = Piece(GENERAL, team)
                 /\ LastEntry(game').team = Enemy(team)
                 /\ game'.status = WinOf(Enemy(team))]_vars

\* a team has lost its General to the other team, which still has its own
\* and has won
C31_Witness ==
    /\ LogLen(game) > 0
    /\ \E team \in {BLUE, RED} :
          /\ Generals(game.board, team) = {}
          /\ Cardinality(Generals(game.board, Enemy(team))) = 1
          /\ game.status = WinOf(Enemy(team))

\* C32: a make_move call whose from_pos or to_pos lies off the board (row
\* outside 0..9 or column outside 0..8) is refused without an exception and
\* leaves the game as it was, so that every accepted move has both of its
\* positions on the board and two different ones.
C32_OffBoardMovesRefused ==
    /\ [](\A from \in RequestPos, to \in RequestPos :
            (from \notin BoardPos \/ to \notin BoardPos) =>
                /\ ~Tried(from, to).result.success
                /\ ~Tried(from, to).result.raised
                /\ Tried(from, to).game = game)
    /\ [][MoveStep =>
            /\ LastEntry(game').move.from_pos \in BoardPos
            /\ LastEntry(game').move.to_pos \in BoardPos
            /\ LastEntry(game').move.to_pos # LastEntry(game').move.from_pos]_vars

\* the last accepted move names a source off the board, and a call with a
\* source beyond the last row or column raises an exception
C32_Witness ==
    /\ LogLen(game) > 0
    /\ LastEntry(game).move.from_pos \notin BoardPos
    /\ LastEntry(game).move.to_pos \in BoardPos
    /\ \E from \in RequestPos \ BoardPos : Tried(from, <<0, 0>>).result.raised

CanMove(g) == \E pos \in BoardPos : get_valid_moves_for_piece(g, pos) # {}

\* C33: in every state with status Playing and no second move pending, the
\* team to move is not checkmated and has a legal destination; this holds
\* in particular in the state an accepted skip_second_move leaves.
C33_TeamToMoveCanMove ==
    /\ []((game.status = PLAYING /\ ~AwaitingSecondMove(game)) =>
             ~Checkmated(game) /\ CanMove(game))
    /\ [][(SkipStep /\ game'.status = PLAYING) =>
             ~Checkmated(game') /\ CanMove(game')]_vars

\* Red has skipped its second move of turn 11 and Blue, checkmated by the
\* first, is to move in a game that is still Playing
C33_Witness ==
    /\ game.status = PLAYING
    /\ ~AwaitingSecondMove(game)
    /\ game.current_team = BLUE
    /\ game.turn_number = DoubleMoveTurn
    /\ LogLen(game) > 0
    /\ LastEntry(game).team = RED
    /\ Checkmated(game)
====
